---- MODULE Spec2Model ----
(***************************************************************************)
(* Model of the checksum worker pool (Pipe) of srerickson/checksum:        *)
(* NewPipe, Pipe.Add, Pipe.Close, Pipe.Out, the worker goroutines, the     *)
(* goroutine that closes the output channel, and Job.do.                   *)
(*                                                                         *)
(* Goroutines are processes with a program counter; a Go channel is a      *)
(* buffer with a capacity (0 for make(chan Job)), so that a send completes *)
(* either into the buffer or in a rendezvous with a receiver.              *)
(***************************************************************************)
EXTENDS Integers, Sequences, FiniteSets, TLC

\* ---------------------------------------------------------------- bounds
MaxGos  == 2      \* largest worker count explored
MaxJobs == 2      \* largest number of Add calls the submitter makes

\* ------------------------------------------------------ program constants
OutCap == 0       \* capacity of pipe.out: make(chan Job)

\* pipe.in with a slip: make(chan Job, 1)
InCap_Buffered == OutCap + 1

InCap  == 0       \* capacity of pipe.in:  make(chan Job)

\* --------------------------------------------------------- the file system
\* The fs.FS the pipe is scoped to.  "file.txt" is a regular file,
\* "nofile" does not exist (Open fails), "nostat" opens but Stat fails,
\* "." is a directory (Open and Stat succeed, Read fails).  Further files
\* exist beside the paths added to the pipe: "big.bin" is a longer regular
\* file, "bad.bin" a regular file whose second Read fails, and any other
\* name is an empty regular file.
Paths == {"file.txt", "nofile", "nostat", "."}

FsOpenErr(path) == IF path = "nofile" THEN "open" ELSE "nil"

FsStatErr(path) == IF path = "nostat" THEN "stat" ELSE "nil"

\* the chunks successive Read calls return before io.EOF or an error
FsChunks(path) ==
  IF path = "file.txt" THEN <<"c1", "c2">>
  ELSE IF path = "big.bin" THEN <<"c2", "c1", "c2">>
  ELSE IF path = "bad.bin" THEN <<"c1">>
  ELSE <<>>

\* the error that ends the reading ("nil" stands for io.EOF)
FsReadErr(path) == IF path \in {".", "bad.bin"} THEN "read" ELSE "nil"

\* -------------------------------------------------------------------- Job
Algs == <<"md5", "sha512">>

NoJob == [id |-> 0]

\* hash.Hash: newHash() is an empty accumulator, Write appends, Sum finalizes
NewHash(alg) == [alg |-> alg, written |-> <<>>]

HashWrite(h, chunk) == [h EXCEPT !.written = Append(@, chunk)]

HashSum(h) == <<h.alg, h.written>>

\* io.MultiWriter.Write with a slip: only the first writer gets the chunk
MultiWrite_FirstOnly(hashes, chunk) ==
  [i \in DOMAIN hashes |-> IF i = 1 THEN HashWrite(hashes[i], chunk) ELSE hashes[i]]

\* io.MultiWriter(writers...).Write: each writer, in order, gets the chunk
MultiWrite(hashes, chunk) == [i \in DOMAIN hashes |-> HashWrite(hashes[i], chunk)]

\* io.Copy(multi, file): read a chunk, write it, until EOF or error
RECURSIVE Copy(_, _)
Copy(hashes, chunks) ==
  IF chunks = <<>> THEN hashes
  ELSE Copy(MultiWrite(hashes, Head(chunks)), Tail(chunks))

\* the Jobs whose file Job.do opens: j.fs.Open(j.path) is reached only
\* when the Job carries no error
Opens(j) == IF j.err # "nil" THEN {} ELSE {j.id}

\* Job.do with a slip: the error the Job carries is not looked at
Do_NoErrCheck(j) ==
  IF FsOpenErr(j.path) # "nil" THEN [j EXCEPT !.err = FsOpenErr(j.path)]
  ELSE IF FsStatErr(j.path) # "nil" THEN [j EXCEPT !.err = FsStatErr(j.path)]
  ELSE LET hashes == [i \in DOMAIN j.algs |-> NewHash(j.algs[i])]
           copied == Copy(hashes, FsChunks(j.path))
       IN  IF FsReadErr(j.path) # "nil"
           THEN [j EXCEPT !.info = "info", !.err = FsReadErr(j.path)]
           ELSE [j EXCEPT !.info = "info",
                          !.sums = [i \in DOMAIN copied |-> HashSum(copied[i])]]

\* Job.do with a slip: the first accumulator is finalized into j.sums
\* before the error of io.Copy is looked at
Do_PartialSums(j) ==
  IF j.err # "nil" THEN j
  ELSE IF FsOpenErr(j.path) # "nil" THEN [j EXCEPT !.err = FsOpenErr(j.path)]
  ELSE IF FsStatErr(j.path) # "nil" THEN [j EXCEPT !.err = FsStatErr(j.path)]
  ELSE LET hashes == [i \in DOMAIN j.algs |-> NewHash(j.algs[i])]
           copied == Copy(hashes, FsChunks(j.path))
       IN  IF FsReadErr(j.path) # "nil"
           THEN [j EXCEPT !.info = "info", !.err = FsReadErr(j.path),
                          !.sums = <<HashSum(copied[1])>>]
           ELSE [j EXCEPT !.info = "info",
                          !.sums = [i \in DOMAIN copied |-> HashSum(copied[i])]]

\* Job.do
Do(j) ==
  IF j.err # "nil" THEN j
  ELSE IF FsOpenErr(j.path) # "nil" THEN [j EXCEPT !.err = FsOpenErr(j.path)]
  ELSE IF FsStatErr(j.path) # "nil" THEN [j EXCEPT !.err = FsStatErr(j.path)]
  ELSE LET hashes == [i \in DOMAIN j.algs |-> NewHash(j.algs[i])]
           copied == Copy(hashes, FsChunks(j.path))
       IN  IF FsReadErr(j.path) # "nil"
           THEN [j EXCEPT !.info = "info", !.err = FsReadErr(j.path)]
           ELSE [j EXCEPT !.info = "info",
                          !.sums = [i \in DOMAIN copied |-> HashSum(copied[i])]]

\* WithGos with a slip: n is stored as it is given
WithGos_NoCoerce(n) == IF n < 1 THEN n ELSE n

\* Config.numGos as WithGos sets it
WithGos(n) == IF n < 1 THEN 1 ELSE n

\* ------------------------------------------------------------------ state
VARIABLES
  numGos,      \* pipe.conf.numGos
  ctxDone,     \* pipe.conf.ctx.Done() is closed
  inBuf,       \* pipe.in: buffered Jobs
  inClosed,    \* pipe.in is closed
  outBuf,      \* pipe.out: buffered Jobs
  outClosed,   \* pipe.out is closed
  wg,          \* the sync.WaitGroup counter
  wpc,         \* each worker goroutine's position
  wjob,        \* each worker goroutine's job variable
  closerPc,    \* the position of the goroutine that closes pipe.out
  subPc,       \* the submitter's position
  subJob,      \* the Job the submitter's Add is sending
  cpc,         \* the consumer's position in its range over Out()
  received,    \* the Jobs the consumer received from Out(), in order
  panicked,    \* the run-time panic that ended the program, or "none"
  \* history variables
  addCalls,    \* number of Add calls started
  addErrs,     \* number of Add calls that returned an error
  accepted,    \* ids of the Jobs whose Add returned nil
  saw,         \* per Job id: what the worker's select saw of ctx.Done()
  digested,    \* ids of the Jobs on which Job.do ran
  discarded,   \* ids of the Jobs a worker dropped at its select
  emitted,     \* the Jobs whose send on pipe.out completed, in order
  outCloses,   \* number of close(pipe.out) executed
  acceptedAtCancel, \* Cardinality(accepted) when the context was cancelled
  emittedAtCancel,  \* Len(emitted) when the context was cancelled
  closeCalls,  \* number of Close calls started
  \* Walk
  confAlgs,    \* pipe.conf.algs
  tree,        \* the calls fs.WalkDir makes to the walk closure, in order
  walkPos,     \* index in tree of the next call to the walk closure
  travPc,      \* the position of Walk's traversal goroutine
  walkDirErr,  \* the value fs.WalkDir returns
  walkErrChan, \* walkErrChan: buffered values
  walkErrClosed, \* walkErrChan is closed
  mainPc,      \* the position of the goroutine that called Walk
  jobFuncErr,  \* Walk's jobFuncErr
  handled,     \* number of received Jobs the body of Walk's drain loop ran for
  calls,       \* the invocations of the JobFunc, in order (history)
  walkRet,     \* the value Walk returned
  ctxAtCall,   \* whether the context was cancelled when Walk was called
  \* Job accessors
  aJob,        \* the Job the accessors are called on
  aRet,        \* the last call of a method: the Job then, the value returned
  \* one run of Job.do
  dIn,         \* the Job as it was when do was called
  dJob,        \* the Job do works on
  dPc,         \* the position in do
  dHashes,     \* hashes: the accumulators, one per algorithm
  dPos,        \* number of chunks read from the file
  dChunk,      \* the chunk io.Copy read last
  dNext,       \* index of the next writer io.MultiWriter writes dChunk to
  dLog,        \* the calls made on the file and on the writers, in order
  \* configuration
  confN,       \* the n of the option WithGos(n) given to NewPipe or Walk
  serial,      \* the caller adds, closes and drains Out() on one goroutine
  \* package delta
  v1,          \* the FileSet v1 given to delta.New
  v2,          \* the FileSet v2 given to delta.New
  delta,       \* the Delta that New returned
  dlRet,       \* the last call of a method of Delta and the value returned
  \* the caller of Walk
  errRet,      \* the call of Error on the *WalkErr Walk returned
  \* history of the Jobs given to the pipe
  added,       \* per Job id: the path and the error of the Job as added
  opened       \* ids of the Jobs whose file the digesting opened

vars == <<numGos, ctxDone, inBuf, inClosed, outBuf, outClosed, wg, wpc, wjob,
          closerPc, subPc, subJob, cpc, received, panicked, addCalls, addErrs,
          accepted, saw, digested, discarded, emitted, outCloses,
          acceptedAtCancel, emittedAtCancel, closeCalls, confAlgs, tree,
          walkPos, travPc, walkDirErr, walkErrChan, walkErrClosed, mainPc,
          jobFuncErr, handled, calls, walkRet, ctxAtCall, aJob, aRet,
          dIn, dJob, dPc, dHashes, dPos, dChunk, dNext, dLog, confN, serial,
          v1, v2, delta, dlRet, errRet, added, opened>>

pipeVars == <<numGos, ctxDone, inBuf, inClosed, outBuf, outClosed, wg, wpc,
              wjob, closerPc, subPc, subJob, cpc, received, panicked,
              addCalls, addErrs, accepted, saw, digested, discarded, emitted,
              outCloses, acceptedAtCancel, emittedAtCancel, closeCalls>>

walkVars == <<confAlgs, tree, walkPos, travPc, walkDirErr, walkErrChan,
              walkErrClosed, mainPc, jobFuncErr, handled, calls, walkRet,
              ctxAtCall>>

jobVars == <<aJob, aRet>>

doVars == <<dIn, dJob, dPc, dHashes, dPos, dChunk, dNext, dLog>>

\* the state of the package outside the pipe and Walk
confVars == <<confN, serial>>

deltaVars == <<v1, v2, delta, dlRet>>

errVars == <<errRet>>

histVars == <<added, opened>>

extVars == <<jobVars, doVars, confVars, deltaVars, errVars, histVars>>

NoRet == [kind |-> "none"]

\* aRet before any call of a method
NoCall == [m |-> "none"]

\* no accessor has been called on any Job
JobIdle == aJob = NoJob /\ aRet = NoCall

\* do is not running
DoIdle ==
  /\ dIn = NoJob /\ dJob = NoJob /\ dPc = "none"
  /\ dHashes = <<>> /\ dPos = 0 /\ dChunk = "none" /\ dNext = 0
  /\ dLog = <<>>

\* delta.New has not been called
NoDelta == [made |-> FALSE]

DeltaIdle == v1 = <<>> /\ v2 = <<>> /\ delta = NoDelta /\ dlRet = NoCall

\* Error has not been called on a *WalkErr
ErrIdle == errRet = NoCall

\* no Job was added, no file was opened
HistIdle == added = <<>> /\ opened = {}

ExtIdle == JobIdle /\ DoIdle /\ DeltaIdle /\ ErrIdle /\ HistIdle

\* the variables a call on a Job leaves alone
notJobVars == <<pipeVars, walkVars, doVars, confVars, deltaVars, errVars, histVars>>

\* the variables a run of do leaves alone
notDoVars == <<pipeVars, walkVars, jobVars, confVars, deltaVars, errVars, histVars>>

\* the variables package delta leaves alone
notDeltaVars == <<pipeVars, walkVars, jobVars, doVars, confVars, errVars, histVars>>

WorkerIds == 1..MaxGos

Workers == 1..numGos

JobIds == 1..MaxJobs

\* NewPipe with a non-empty algorithm set: channels made, numGos workers and
\* the closing goroutine started, wg.Add(1) done once per worker.
NewPipe ==
  /\ \E n \in -1..MaxGos : confN = n /\ numGos = WithGos(n)
  /\ ctxDone = FALSE
  /\ inBuf = <<>> /\ inClosed = FALSE
  /\ outBuf = <<>> /\ outClosed = FALSE
  /\ wg = numGos
  /\ wpc = [w \in 1..numGos |-> "range"]
  /\ wjob = [w \in 1..numGos |-> NoJob]
  /\ closerPc = "wait"
  /\ subPc = "idle" /\ subJob = NoJob
  /\ cpc = "range" /\ received = <<>>
  /\ panicked = "none"
  /\ addCalls = 0 /\ addErrs = 0 /\ accepted = {}
  /\ saw = [i \in JobIds |-> "none"]
  /\ digested = {} /\ discarded = {} /\ emitted = <<>>
  /\ outCloses = 0 /\ acceptedAtCancel = 0 /\ emittedAtCancel = 0
  /\ closeCalls = 0
  /\ confAlgs = Algs
  /\ tree = <<>> /\ walkPos = 0 /\ travPc = "unborn" /\ walkDirErr = "nil"
  /\ walkErrChan = <<>> /\ walkErrClosed = FALSE
  /\ mainPc = "none" /\ jobFuncErr = "nil" /\ handled = 0 /\ calls = <<>>
  /\ walkRet = NoRet /\ ctxAtCall = FALSE
  /\ ExtIdle

\* the pipe NewPipe returned, used by a submitting goroutine and a
\* draining goroutine
Init == NewPipe /\ serial = FALSE

\* a run-time panic ends the program: no goroutine takes another step
Running == panicked = "none"

\* ------------------------------------------------------------- submitter
\* Pipe.Add with a slip: no select on ctx.Done(), the Job is always sent
AddCall_NoCtx(path) ==
  /\ Running
  /\ subPc = "idle" /\ addCalls < MaxJobs
  /\ addCalls' = addCalls + 1
  /\ subPc' = "send"
  /\ subJob' = [id |-> addCalls + 1, path |-> path, algs |-> Algs,
                sums |-> <<>>, err |-> "nil", info |-> "nil"]
  /\ UNCHANGED <<numGos, ctxDone, inBuf, inClosed, outBuf, outClosed, wg, wpc,
                 wjob, closerPc, cpc, received, panicked, addErrs, accepted,
                 saw, digested, discarded, emitted, outCloses,
                 acceptedAtCancel, emittedAtCancel>>
  /\ UNCHANGED <<closeCalls, walkVars>>
  /\ added' = Append(added, [path |-> path, err |-> "nil"])
  /\ UNCHANGED <<jobVars, doVars, confVars, deltaVars, errVars, opened>>

\* Pipe.Add up to its select: the Job is built, then either the context is
\* done and Add returns an error, or Add goes on to send on pipe.in.
AddCall(path) ==
  /\ Running
  /\ subPc = "idle" /\ addCalls < MaxJobs
  /\ addCalls' = addCalls + 1
  /\ IF ctxDone
     THEN /\ addErrs' = addErrs + 1
          /\ UNCHANGED <<subPc, subJob>>
     ELSE /\ subPc' = "send"
          /\ subJob' = [id |-> addCalls + 1, path |-> path, algs |-> Algs,
                        sums |-> <<>>, err |-> "nil", info |-> "nil"]
          /\ UNCHANGED addErrs
  /\ UNCHANGED <<numGos, ctxDone, inBuf, inClosed, outBuf, outClosed, wg, wpc,
                 wjob, closerPc, cpc, received, panicked, accepted, saw,
                 digested, discarded, emitted, outCloses, acceptedAtCancel,
                 emittedAtCancel>>
  /\ UNCHANGED <<closeCalls, walkVars>>
  /\ added' = Append(added, [path |-> path, err |-> "nil"])
  /\ UNCHANGED <<jobVars, doVars, confVars, deltaVars, errVars, opened>>

\* Pipe.Add with a slip: a send on the closed channel is dropped and Add
\* returns nil
AddSend_SilentDrop(w) ==
  /\ Running /\ w \in Workers
  /\ subPc = "send"
  /\ IF inClosed
     THEN /\ subPc' = "idle"
          /\ subJob' = NoJob
          /\ UNCHANGED <<inBuf, wpc, wjob, accepted, panicked>>
     ELSE /\ IF Len(inBuf) < InCap
             THEN /\ inBuf' = Append(inBuf, subJob)
                  /\ UNCHANGED <<wpc, wjob>>
             ELSE /\ wpc[w] = "range"
                  /\ wpc' = [wpc EXCEPT ![w] = "select"]
                  /\ wjob' = [wjob EXCEPT ![w] = subJob]
                  /\ UNCHANGED inBuf
          /\ subPc' = "idle"
          /\ subJob' = NoJob
          /\ accepted' = accepted \cup {subJob.id}
          /\ UNCHANGED panicked
  /\ UNCHANGED <<numGos, ctxDone, inClosed, outBuf, outClosed, wg, closerPc,
                 cpc, received, addCalls, addErrs, saw, digested, discarded,
                 emitted, outCloses, acceptedAtCancel,
                 emittedAtCancel>>
  /\ UNCHANGED <<closeCalls, walkVars>>
  /\ UNCHANGED extVars

\* Pipe.Add: p.in <- j, then return nil.  The send completes into the
\* buffer if there is room, else in a rendezvous with worker w waiting in
\* its range over pipe.in; on a closed channel it panics.
AddSend(w) ==
  /\ Running /\ w \in Workers
  /\ subPc = "send"
  /\ IF inClosed
     THEN /\ panicked' = "send on closed channel"
          /\ UNCHANGED <<inBuf, wpc, wjob, subPc, subJob, accepted>>
     ELSE /\ IF Len(inBuf) < InCap
             THEN /\ inBuf' = Append(inBuf, subJob)
                  /\ UNCHANGED <<wpc, wjob>>
             ELSE /\ wpc[w] = "range"
                  /\ wpc' = [wpc EXCEPT ![w] = "select"]
                  /\ wjob' = [wjob EXCEPT ![w] = subJob]
                  /\ UNCHANGED inBuf
          /\ subPc' = "idle"
          /\ subJob' = NoJob
          /\ accepted' = accepted \cup {subJob.id}
          /\ UNCHANGED panicked
  /\ UNCHANGED <<numGos, ctxDone, inClosed, outBuf, outClosed, wg, closerPc,
                 cpc, received, addCalls, addErrs, saw, digested, discarded,
                 emitted, outCloses, acceptedAtCancel,
                 emittedAtCancel>>
  /\ UNCHANGED <<closeCalls, walkVars>>
  /\ UNCHANGED extVars

\* Pipe.Close: close(p.in)
Close ==
  /\ Running
  /\ subPc = "idle"
  /\ IF inClosed
     THEN /\ panicked' = "close of closed channel"
          /\ UNCHANGED <<inClosed, subPc>>
     ELSE /\ inClosed' = TRUE
          /\ subPc' = "closed"
          /\ UNCHANGED panicked
  /\ UNCHANGED <<numGos, ctxDone, inBuf, outBuf, outClosed, wg, wpc, wjob,
                 closerPc, subJob, cpc, received, addCalls, addErrs, accepted,
                 saw, digested, discarded, emitted, outCloses,
                 acceptedAtCancel,
                 emittedAtCancel>>
  /\ closeCalls' = closeCalls + 1
  /\ UNCHANGED walkVars
  /\ UNCHANGED extVars

\* ---------------------------------------------------------------- workers
\* the worker's exit with a slip: the loop is left without wg.Done()
WorkerRange_NoDone(w) ==
  /\ Running /\ w \in Workers
  /\ wpc[w] = "range"
  /\ IF Len(inBuf) > 0
     THEN /\ wjob' = [wjob EXCEPT ![w] = Head(inBuf)]
          /\ inBuf' = Tail(inBuf)
          /\ wpc' = [wpc EXCEPT ![w] = "select"]
     ELSE /\ inClosed
          /\ wpc' = [wpc EXCEPT ![w] = "exit"]
          /\ UNCHANGED <<wjob, inBuf>>
  /\ UNCHANGED <<numGos, ctxDone, inClosed, outBuf, outClosed, wg, closerPc,
                 subPc, subJob, cpc, received, panicked, addCalls, addErrs,
                 accepted, saw, digested, discarded, emitted, outCloses,
                 acceptedAtCancel, emittedAtCancel>>
  /\ UNCHANGED <<closeCalls, walkVars>>
  /\ UNCHANGED extVars

\* for job := range pipe.in, without a sender: take a buffered Job, or
\* leave the loop when the channel is closed and empty (defer wg.Done()).
WorkerRange(w) ==
  /\ Running /\ w \in Workers
  /\ wpc[w] = "range"
  /\ IF Len(inBuf) > 0
     THEN /\ wjob' = [wjob EXCEPT ![w] = Head(inBuf)]
          /\ inBuf' = Tail(inBuf)
          /\ wpc' = [wpc EXCEPT ![w] = "select"]
          /\ UNCHANGED wg
     ELSE /\ inClosed
          /\ wpc' = [wpc EXCEPT ![w] = "exit"]
          /\ wg' = wg - 1
          /\ UNCHANGED <<wjob, inBuf>>
  /\ UNCHANGED <<numGos, ctxDone, inClosed, outBuf, outClosed, closerPc,
                 subPc, subJob, cpc, received, panicked, addCalls, addErrs,
                 accepted, saw, digested, discarded, emitted, outCloses,
                 acceptedAtCancel,
                 emittedAtCancel>>
  /\ UNCHANGED <<closeCalls, walkVars>>
  /\ UNCHANGED extVars

\* the worker with a slip: no select on ctx.Done(), every Job is run
WorkerSelect_NoCheck(w) ==
  /\ Running /\ w \in Workers
  /\ wpc[w] = "select"
  /\ saw' = [saw EXCEPT ![wjob[w].id] = "clear"]
  /\ wpc' = [wpc EXCEPT ![w] = "do"]
  /\ UNCHANGED <<numGos, ctxDone, inBuf, inClosed, outBuf, outClosed, wg, wjob,
                 closerPc, subPc, subJob, cpc, received, panicked, addCalls,
                 addErrs, accepted, digested, discarded, emitted, outCloses,
                 acceptedAtCancel, emittedAtCancel>>
  /\ UNCHANGED <<closeCalls, walkVars>>
  /\ UNCHANGED extVars

\* the worker as in the superseded Pool function (src/checksum.go:118-121):
\* on a cancelled context it returns instead of continuing to drain
WorkerSelect_Return(w) ==
  /\ Running /\ w \in Workers
  /\ wpc[w] = "select"
  /\ IF ctxDone
     THEN /\ saw' = [saw EXCEPT ![wjob[w].id] = "fired"]
          /\ discarded' = discarded \cup {wjob[w].id}
          /\ wjob' = [wjob EXCEPT ![w] = NoJob]
          /\ wpc' = [wpc EXCEPT ![w] = "exit"]
          /\ wg' = wg - 1
     ELSE /\ saw' = [saw EXCEPT ![wjob[w].id] = "clear"]
          /\ wpc' = [wpc EXCEPT ![w] = "do"]
          /\ UNCHANGED <<discarded, wjob, wg>>
  /\ UNCHANGED <<numGos, ctxDone, inBuf, inClosed, outBuf, outClosed,
                 closerPc, subPc, subJob, cpc, received, panicked, addCalls,
                 addErrs, accepted, digested, emitted, outCloses,
                 acceptedAtCancel, emittedAtCancel>>
  /\ UNCHANGED <<closeCalls, walkVars>>
  /\ UNCHANGED extVars

\* the select with a slip: a Job dequeued after cancellation is still sent
\* on pipe.out, marked with an error, instead of being dropped
WorkerSelect_EmitCancelled(w) ==
  /\ Running /\ w \in Workers
  /\ wpc[w] = "select"
  /\ IF ctxDone
     THEN /\ saw' = [saw EXCEPT ![wjob[w].id] = "fired"]
          /\ wjob' = [wjob EXCEPT ![w].err = "canceled"]
          /\ wpc' = [wpc EXCEPT ![w] = "send"]
     ELSE /\ saw' = [saw EXCEPT ![wjob[w].id] = "clear"]
          /\ wpc' = [wpc EXCEPT ![w] = "do"]
          /\ UNCHANGED wjob
  /\ UNCHANGED <<numGos, ctxDone, inBuf, inClosed, outBuf, outClosed, wg,
                 closerPc, subPc, subJob, cpc, received, panicked, addCalls,
                 addErrs, accepted, digested, discarded, emitted, outCloses,
                 acceptedAtCancel, emittedAtCancel>>
  /\ UNCHANGED <<closeCalls, walkVars>>
  /\ UNCHANGED extVars

\* select { case <-pipe.conf.ctx.Done(): continue; default: ... }
WorkerSelect(w) ==
  /\ Running /\ w \in Workers
  /\ wpc[w] = "select"
  /\ IF ctxDone
     THEN /\ saw' = [saw EXCEPT ![wjob[w].id] = "fired"]
          /\ discarded' = discarded \cup {wjob[w].id}
          /\ wjob' = [wjob EXCEPT ![w] = NoJob]
          /\ wpc' = [wpc EXCEPT ![w] = "range"]
     ELSE /\ saw' = [saw EXCEPT ![wjob[w].id] = "clear"]
          /\ wpc' = [wpc EXCEPT ![w] = "do"]
          /\ UNCHANGED <<discarded, wjob>>
  /\ UNCHANGED <<numGos, ctxDone, inBuf, inClosed, outBuf, outClosed, wg,
                 closerPc, subPc, subJob, cpc, received, panicked, addCalls,
                 addErrs, accepted, digested, emitted, outCloses,
                 acceptedAtCancel,
                 emittedAtCancel>>
  /\ UNCHANGED <<closeCalls, walkVars>>
  /\ UNCHANGED extVars

\* job.do() with a slip: a worker digests with as many of the algorithms as
\* its own number, so that the result depends on the worker that ran it
WorkerDo_WorkerAlgs(w) ==
  /\ Running /\ w \in Workers
  /\ wpc[w] = "do"
  /\ wjob' = [wjob EXCEPT ![w] = Do([wjob[w] EXCEPT !.algs = SubSeq(@, 1, w)])]
  /\ digested' = digested \cup {wjob[w].id}
  /\ wpc' = [wpc EXCEPT ![w] = "send"]
  /\ opened' = opened \cup Opens(wjob[w])
  /\ UNCHANGED <<numGos, ctxDone, inBuf, inClosed, outBuf, outClosed, wg,
                 closerPc, subPc, subJob, cpc, received, panicked, addCalls,
                 addErrs, accepted, saw, discarded, emitted, outCloses,
                 acceptedAtCancel,
                 emittedAtCancel>>
  /\ UNCHANGED <<closeCalls, walkVars>>
  /\ UNCHANGED <<jobVars, doVars, confVars, deltaVars, errVars, added>>

\* job.do() with a slip: a Job that failed is not sent, the loop continues
WorkerDo_SkipErr(w) ==
  /\ Running /\ w \in Workers
  /\ wpc[w] = "do"
  /\ digested' = digested \cup {wjob[w].id}
  /\ IF Do(wjob[w]).err # "nil"
     THEN /\ wjob' = [wjob EXCEPT ![w] = NoJob]
          /\ wpc' = [wpc EXCEPT ![w] = "range"]
     ELSE /\ wjob' = [wjob EXCEPT ![w] = Do(wjob[w])]
          /\ wpc' = [wpc EXCEPT ![w] = "send"]
  /\ UNCHANGED <<numGos, ctxDone, inBuf, inClosed, outBuf, outClosed, wg,
                 closerPc, subPc, subJob, cpc, received, panicked, addCalls,
                 addErrs, accepted, saw, discarded, emitted, outCloses,
                 acceptedAtCancel, emittedAtCancel>>
  /\ UNCHANGED <<closeCalls, walkVars>>
  /\ opened' = opened \cup Opens(wjob[w])
  /\ UNCHANGED <<jobVars, doVars, confVars, deltaVars, errVars, added>>

\* job.do()
WorkerDo(w) ==
  /\ Running /\ w \in Workers
  /\ wpc[w] = "do"
  /\ wjob' = [wjob EXCEPT ![w] = Do(wjob[w])]
  /\ digested' = digested \cup {wjob[w].id}
  /\ wpc' = [wpc EXCEPT ![w] = "send"]
  /\ opened' = opened \cup Opens(wjob[w])
  /\ UNCHANGED <<numGos, ctxDone, inBuf, inClosed, outBuf, outClosed, wg,
                 closerPc, subPc, subJob, cpc, received, panicked, addCalls,
                 addErrs, accepted, saw, discarded, emitted, outCloses,
                 acceptedAtCancel,
                 emittedAtCancel>>
  /\ UNCHANGED <<closeCalls, walkVars>>
  /\ UNCHANGED <<jobVars, doVars, confVars, deltaVars, errVars, added>>

\* the send with a slip: select { case pipe.out <- job: case <-ctx.Done(): },
\* so a finished Job is dropped when the context is cancelled meanwhile
WorkerSend_Abort(w) ==
  /\ Running /\ w \in Workers
  /\ wpc[w] = "send"
  /\ IF ctxDone
     THEN /\ discarded' = discarded \cup {wjob[w].id}
          /\ UNCHANGED <<received, emitted>>
     ELSE /\ cpc = "range" /\ ~outClosed
          /\ received' = Append(received, wjob[w])
          /\ emitted' = Append(emitted, wjob[w])
          /\ UNCHANGED discarded
  /\ wjob' = [wjob EXCEPT ![w] = NoJob]
  /\ wpc' = [wpc EXCEPT ![w] = "range"]
  /\ UNCHANGED <<numGos, ctxDone, inBuf, inClosed, outBuf, outClosed, wg,
                 closerPc, subPc, subJob, cpc, panicked, addCalls, addErrs,
                 accepted, saw, digested, outCloses, acceptedAtCancel,
                 emittedAtCancel>>
  /\ UNCHANGED <<closeCalls, walkVars>>
  /\ UNCHANGED extVars

\* the send with a slip: after sending a Job that failed the worker returns
WorkerSend_ExitOnErr(w) ==
  /\ Running /\ w \in Workers
  /\ wpc[w] = "send"
  /\ cpc = "range" /\ ~outClosed
  /\ received' = Append(received, wjob[w])
  /\ emitted' = Append(emitted, wjob[w])
  /\ wjob' = [wjob EXCEPT ![w] = NoJob]
  /\ IF wjob[w].err # "nil"
     THEN wpc' = [wpc EXCEPT ![w] = "exit"] /\ wg' = wg - 1
     ELSE wpc' = [wpc EXCEPT ![w] = "range"] /\ UNCHANGED wg
  /\ UNCHANGED <<numGos, ctxDone, inBuf, inClosed, outBuf, outClosed,
                 closerPc, subPc, subJob, cpc, panicked, addCalls, addErrs,
                 accepted, saw, digested, discarded, outCloses,
                 acceptedAtCancel, emittedAtCancel>>
  /\ UNCHANGED <<closeCalls, walkVars>>
  /\ UNCHANGED extVars

\* pipe.out <- job: into the buffer if there is room, else in a rendezvous
\* with the consumer waiting in its range over Out(); on a closed channel
\* it panics.
WorkerSend(w) ==
  /\ Running /\ w \in Workers
  /\ wpc[w] = "send"
  /\ IF outClosed
     THEN /\ panicked' = "send on closed channel"
          /\ UNCHANGED <<outBuf, received, emitted, wpc, wjob>>
     ELSE /\ IF Len(outBuf) < OutCap
             THEN /\ outBuf' = Append(outBuf, wjob[w])
                  /\ UNCHANGED received
             ELSE /\ cpc = "range"
                  /\ received' = Append(received, wjob[w])
                  /\ UNCHANGED outBuf
          /\ emitted' = Append(emitted, wjob[w])
          /\ wjob' = [wjob EXCEPT ![w] = NoJob]
          /\ wpc' = [wpc EXCEPT ![w] = "range"]
          /\ UNCHANGED panicked
  /\ UNCHANGED <<numGos, ctxDone, inBuf, inClosed, outClosed, wg, closerPc,
                 subPc, subJob, cpc, addCalls, addErrs, accepted, saw,
                 digested, discarded, outCloses, acceptedAtCancel,
                 emittedAtCancel>>
  /\ UNCHANGED <<closeCalls, walkVars>>
  /\ UNCHANGED extVars

\* the closing goroutine with a slip: close(pipe.out) without wg.Wait()
Closer_NoWait ==
  /\ Running
  /\ closerPc = "wait"
  /\ IF outClosed
     THEN /\ panicked' = "close of closed channel"
          /\ UNCHANGED <<outClosed, outCloses>>
     ELSE /\ outClosed' = TRUE
          /\ outCloses' = outCloses + 1
          /\ UNCHANGED panicked
  /\ closerPc' = "done"
  /\ UNCHANGED <<numGos, ctxDone, inBuf, inClosed, outBuf, wg, wpc, wjob,
                 subPc, subJob, cpc, received, addCalls, addErrs, accepted,
                 saw, digested, discarded, emitted, acceptedAtCancel,
                 emittedAtCancel>>
  /\ UNCHANGED <<closeCalls, walkVars>>
  /\ UNCHANGED extVars

\* go func() { wg.Wait(); close(pipe.out) }()
Closer ==
  /\ Running
  /\ closerPc = "wait"
  /\ wg = 0
  /\ IF outClosed
     THEN /\ panicked' = "close of closed channel"
          /\ UNCHANGED <<outClosed, outCloses>>
     ELSE /\ outClosed' = TRUE
          /\ outCloses' = outCloses + 1
          /\ UNCHANGED panicked
  /\ closerPc' = "done"
  /\ UNCHANGED <<numGos, ctxDone, inBuf, inClosed, outBuf, wg, wpc, wjob,
                 subPc, subJob, cpc, received, addCalls, addErrs, accepted,
                 saw, digested, discarded, emitted, acceptedAtCancel,
                 emittedAtCancel>>
  /\ UNCHANGED <<closeCalls, walkVars>>
  /\ UNCHANGED extVars

\* --------------------------------------------------------------- consumer
\* for j := range pipe.Out(), without a sender: take a buffered Job, or
\* leave the loop when the channel is closed and empty.
ConsumerRange ==
  /\ Running
  /\ cpc = "range"
  /\ IF Len(outBuf) > 0
     THEN /\ received' = Append(received, Head(outBuf))
          /\ outBuf' = Tail(outBuf)
          /\ UNCHANGED cpc
     ELSE /\ outClosed
          /\ cpc' = "done"
          /\ UNCHANGED <<received, outBuf>>
  /\ UNCHANGED <<numGos, ctxDone, inBuf, inClosed, outClosed, wg, wpc, wjob,
                 closerPc, subPc, subJob, panicked, addCalls, addErrs,
                 accepted, saw, digested, discarded, emitted, outCloses,
                 acceptedAtCancel,
                 emittedAtCancel>>
  /\ UNCHANGED <<closeCalls, walkVars>>
  /\ UNCHANGED extVars

\* ----------------------------------------------------------- cancellation
\* the context's cancel function is called
Cancel ==
  /\ Running
  /\ ~ctxDone
  /\ ctxDone' = TRUE
  /\ acceptedAtCancel' = Cardinality(accepted)
  /\ emittedAtCancel' = Len(emitted)
  /\ UNCHANGED <<numGos, inBuf, inClosed, outBuf, outClosed, wg, wpc, wjob,
                 closerPc, subPc, subJob, cpc, received, panicked, addCalls,
                 addErrs, accepted, saw, digested, discarded, emitted,
                 outCloses>>
  /\ UNCHANGED <<closeCalls, walkVars>>
  /\ UNCHANGED extVars

\* ---------------------------------------------------------- specification
Submitter ==
  \/ \E path \in Paths : AddCall(path)
  \/ \E w \in WorkerIds : AddSend(w)
  \/ Close

Worker(w) == WorkerRange(w) \/ WorkerSelect(w) \/ WorkerDo(w) \/ WorkerSend(w)

Next ==
  \/ \E path \in Paths : AddCall(path)
  \/ \E w \in WorkerIds : AddSend(w)
  \/ Close
  \/ \E w \in WorkerIds : WorkerRange(w)
  \/ \E w \in WorkerIds : WorkerSelect(w)
  \/ \E w \in WorkerIds : WorkerDo(w)
  \/ \E w \in WorkerIds : WorkerSend(w)
  \/ Closer
  \/ ConsumerRange
  \/ Cancel

Spec == Init /\ [][Next]_vars

\* Each goroutine that can take a step eventually takes one; the submitter
\* makes finitely many Add calls and then calls Close; nothing forces the
\* context to be cancelled.
Fairness ==
  /\ WF_vars(Submitter)
  /\ \A w \in WorkerIds : WF_vars(Worker(w))
  /\ WF_vars(Closer)
  /\ WF_vars(ConsumerRange)

FairSpec == Spec /\ Fairness

\* ----------------------------------------------------------------- misuse
\* A caller that goes on calling Add and Close after Close has returned.
CallAfterClose ==
  /\ Running
  /\ subPc = "closed"
  /\ subPc' = "idle"
  /\ UNCHANGED <<numGos, ctxDone, inBuf, inClosed, outBuf, outClosed, wg, wpc,
                 wjob, closerPc, subJob, cpc, received, panicked, addCalls,
                 addErrs, accepted, saw, digested, discarded, emitted,
                 outCloses, acceptedAtCancel, emittedAtCancel>>
  /\ UNCHANGED <<closeCalls, walkVars>>
  /\ UNCHANGED extVars

MisuseNext ==
  \/ \E path \in Paths : AddCall(path)
  \/ \E w \in WorkerIds : AddSend(w)
  \/ Close
  \/ CallAfterClose
  \/ \E w \in WorkerIds : WorkerRange(w)
  \/ \E w \in WorkerIds : WorkerSelect(w)
  \/ \E w \in WorkerIds : WorkerDo(w)
  \/ \E w \in WorkerIds : WorkerSend(w)
  \/ Closer
  \/ ConsumerRange
  \/ Cancel

MisuseSpec == Init /\ [][MisuseNext]_vars

\* ----------------------------------------------------------- one goroutine
\* A caller without cancellation that either, as Add's comment advises,
\* adds and closes on one goroutine and drains Out() on another, or does
\* all of it on one goroutine: its Add calls, then Close, and only then
\* its range over Out().
SerialInit == NewPipe /\ serial \in BOOLEAN

\* the range over Out() has begun
Draining == serial => subPc = "closed"

\* a worker's send on pipe.out with a slip: the receiver is there from the
\* start, as if Out() were drained on a goroutine of its own
SerialSend_Concurrent(w) == WorkerSend(w)

\* a worker's send on pipe.out: it meets the receiver only once the caller
\* is in its range over Out()
SerialSend(w) == Draining /\ WorkerSend(w)

\* the caller's range over Out()
SerialRange == Draining /\ ConsumerRange

SerialNext ==
  \/ \E path \in Paths : AddCall(path)
  \/ \E w \in WorkerIds : AddSend(w)
  \/ Close
  \/ \E w \in WorkerIds : WorkerRange(w)
  \/ \E w \in WorkerIds : WorkerSelect(w)
  \/ \E w \in WorkerIds : WorkerDo(w)
  \/ \E w \in WorkerIds : SerialSend(w)
  \/ Closer
  \/ SerialRange

SerialSpec == SerialInit /\ [][SerialNext]_vars

SerialWorker(w) ==
  WorkerRange(w) \/ WorkerSelect(w) \/ WorkerDo(w) \/ SerialSend(w)

\* every goroutine that can take a step eventually takes one
SerialFairness ==
  /\ WF_vars(Submitter)
  /\ \A w \in WorkerIds : WF_vars(SerialWorker(w))
  /\ WF_vars(Closer)
  /\ WF_vars(SerialRange)

FairSerialSpec == SerialSpec /\ SerialFairness

\* -------------------------------------------------------- Add(j Job)
\* The pipe whose Add takes a Job the caller made, which may carry an
\* error already; its workers digest a Job only if it carries none.
GivenErrs == {"nil", "prior"}

\* Pipe.Add(j Job) up to its select
AddJob(path, err) ==
  /\ Running
  /\ subPc = "idle" /\ addCalls < MaxJobs
  /\ addCalls' = addCalls + 1
  /\ added' = Append(added, [path |-> path, err |-> err])
  /\ IF ctxDone
     THEN /\ addErrs' = addErrs + 1
          /\ UNCHANGED <<subPc, subJob>>
     ELSE /\ subPc' = "send"
          /\ subJob' = [id |-> addCalls + 1, path |-> path, algs |-> Algs,
                        sums |-> <<>>, err |-> err, info |-> "nil"]
          /\ UNCHANGED addErrs
  /\ UNCHANGED <<numGos, ctxDone, inBuf, inClosed, outBuf, outClosed, wg, wpc,
                 wjob, closerPc, cpc, received, panicked, accepted, saw,
                 digested, discarded, emitted, outCloses, acceptedAtCancel,
                 emittedAtCancel>>
  /\ UNCHANGED <<closeCalls, walkVars>>
  /\ UNCHANGED <<jobVars, doVars, confVars, deltaVars, errVars, opened>>

JobPipeNext ==
  \/ \E path \in Paths, err \in GivenErrs : AddJob(path, err)
  \/ \E w \in WorkerIds : AddSend(w)
  \/ Close
  \/ \E w \in WorkerIds : WorkerRange(w)
  \/ \E w \in WorkerIds : WorkerSelect(w)
  \/ \E w \in WorkerIds : WorkerDo(w)
  \/ \E w \in WorkerIds : WorkerSend(w)
  \/ Closer
  \/ ConsumerRange
  \/ Cancel

JobPipeSpec == Init /\ [][JobPipeNext]_vars

\* ------------------------------------------------------------------- Walk
\* Walk(fsys, root, each, opts...): NewPipe, a goroutine that runs
\* fs.WalkDir and adds the paths, and the caller's loop over pip.Out() that
\* invokes the JobFunc.
ErrSkipFile == "skip file"

\* the entry fs.WalkDir passes to the walk closure: path, type, error
Entry(path, kind, err) == [path |-> path, kind |-> kind, err |-> err]

\* the i-th regular file of a tree
WalkPath(i) ==
  IF i = 1 THEN "file.txt" ELSE IF i = 2 THEN "nofile" ELSE "f" \o ToString(i)

\* the calls for the regular files from..to
RECURSIVE WalkFiles(_, _)
WalkFiles(from, to) ==
  IF from > to THEN <<>>
  ELSE <<Entry(WalkPath(from), "file", "nil")>> \o WalkFiles(from + 1, to)

\* a directory fs.WalkDir cannot read: the closure is called for the
\* directory, then called again with the error of ReadDir
BadDir == <<Entry("baddir", "dir", "nil"), Entry("baddir", "dir", "readdir")>>

\* The trees walked: the root directory with n regular files in lexical
\* order, and possibly an unreadable directory met after the first b files.
Trees ==
  {<<Entry(".", "dir", "nil")>> \o WalkFiles(1, n) : n \in 0..MaxJobs}
  \cup
  {<<Entry(".", "dir", "nil")>> \o WalkFiles(1, b) \o BadDir \o WalkFiles(b + 1, n) :
      n \in 0..MaxJobs, b \in 0..MaxJobs}

\* the errors a JobFunc returns
JobFuncResults == {"nil", "stop", "fail"}

DefaultWalkDirFunc(e) ==
  IF e.err # "nil" THEN e.err
  ELSE IF e.kind # "file" THEN ErrSkipFile
  ELSE "nil"

\* the state when Walk is called: nothing made, no goroutine started
WalkInit ==
  /\ \E n \in -1..MaxGos : confN = n /\ numGos = WithGos(n)
  /\ serial = FALSE
  /\ confAlgs \in {<<>>, Algs}
  /\ tree \in Trees
  /\ ctxDone = FALSE
  /\ inBuf = <<>> /\ inClosed = FALSE
  /\ outBuf = <<>> /\ outClosed = FALSE
  /\ wg = 0
  /\ wpc = [w \in 1..numGos |-> "unborn"]
  /\ wjob = [w \in 1..numGos |-> NoJob]
  /\ closerPc = "unborn"
  /\ subPc = "idle" /\ subJob = NoJob
  /\ cpc = "unborn" /\ received = <<>>
  /\ panicked = "none"
  /\ addCalls = 0 /\ addErrs = 0 /\ accepted = {}
  /\ saw = [i \in JobIds |-> "none"]
  /\ digested = {} /\ discarded = {} /\ emitted = <<>>
  /\ outCloses = 0 /\ acceptedAtCancel = 0 /\ emittedAtCancel = 0
  /\ closeCalls = 0
  /\ walkPos = 1 /\ travPc = "unborn" /\ walkDirErr = "nil"
  /\ walkErrChan = <<>> /\ walkErrClosed = FALSE
  /\ mainPc = "call" /\ jobFuncErr = "nil" /\ handled = 0 /\ calls = <<>>
  /\ walkRet = NoRet /\ ctxAtCall = FALSE
  /\ ExtIdle

\* Walk with a slip: NewPipe does not look at the algorithms
WalkNewPipe_NoAlgCheck ==
  /\ Running
  /\ mainPc = "call"
  /\ ctxAtCall' = ctxDone
  /\ wg' = numGos
  /\ wpc' = [w \in Workers |-> "range"]
  /\ closerPc' = "wait"
  /\ travPc' = "walk"
  /\ cpc' = "range"
  /\ mainPc' = "drain"
  /\ UNCHANGED walkRet
  /\ UNCHANGED <<numGos, ctxDone, inBuf, inClosed, outBuf, outClosed, wjob,
                 subPc, subJob, received, panicked, addCalls, addErrs,
                 accepted, saw, digested, discarded, emitted, outCloses,
                 acceptedAtCancel, emittedAtCancel, closeCalls, confAlgs,
                 tree, walkPos, walkDirErr, walkErrChan, walkErrClosed,
                 jobFuncErr, handled, calls>>
  /\ UNCHANGED extVars

\* Walk up to its loop: NewPipe returns an error when no algorithm is
\* configured, and Walk returns it; else NewPipe starts the workers and the
\* closing goroutine, and Walk starts the traversal goroutine.
WalkNewPipe ==
  /\ Running
  /\ mainPc = "call"
  /\ ctxAtCall' = ctxDone
  /\ IF Len(confAlgs) = 0
     THEN /\ walkRet' = [kind |-> "error", err |-> "checksum algorithms not defined"]
          /\ mainPc' = "returned"
          /\ UNCHANGED <<wg, wpc, closerPc, travPc, cpc>>
     ELSE /\ wg' = numGos
          /\ wpc' = [w \in Workers |-> "range"]
          /\ closerPc' = "wait"
          /\ travPc' = "walk"
          /\ cpc' = "range"
          /\ mainPc' = "drain"
          /\ UNCHANGED walkRet
  /\ UNCHANGED <<numGos, ctxDone, inBuf, inClosed, outBuf, outClosed, wjob,
                 subPc, subJob, received, panicked, addCalls, addErrs,
                 accepted, saw, digested, discarded, emitted, outCloses,
                 acceptedAtCancel, emittedAtCancel, closeCalls, confAlgs,
                 tree, walkPos, walkDirErr, walkErrChan, walkErrClosed,
                 jobFuncErr, handled, calls>>
  /\ UNCHANGED extVars

\* the walk closure with a slip: ErrSkipFile is returned to fs.WalkDir like
\* any other error of the walkDirFunc
WalkFn_SkipStops ==
  /\ Running
  /\ travPc = "walk" /\ subPc = "idle"
  /\ walkPos <= Len(tree)
  /\ LET e == tree[walkPos]
         r == DefaultWalkDirFunc(e)
     IN  IF r # "nil"
         THEN /\ travPc' = "ret" /\ walkDirErr' = r /\ UNCHANGED walkPos
              /\ UNCHANGED <<addCalls, addErrs, subPc, subJob>>
         ELSE /\ addCalls' = addCalls + 1
              /\ IF ctxDone
                 THEN /\ addErrs' = addErrs + 1
                      /\ travPc' = "ret" /\ walkDirErr' = "walk canceled"
                      /\ UNCHANGED <<subPc, subJob, walkPos>>
                 ELSE /\ subPc' = "send"
                      /\ subJob' = [id |-> addCalls + 1, path |-> e.path,
                                    algs |-> confAlgs, sums |-> <<>>,
                                    err |-> "nil", info |-> "nil"]
                      /\ walkPos' = walkPos + 1
                      /\ UNCHANGED <<addErrs, travPc, walkDirErr>>
  /\ UNCHANGED <<numGos, ctxDone, inBuf, inClosed, outBuf, outClosed, wg, wpc,
                 wjob, closerPc, cpc, received, panicked, accepted, saw,
                 digested, discarded, emitted, outCloses, acceptedAtCancel,
                 emittedAtCancel, closeCalls, confAlgs, tree, walkErrChan,
                 walkErrClosed, mainPc, jobFuncErr, handled, calls, walkRet,
                 ctxAtCall>>
  /\ UNCHANGED extVars

\* the walk closure with a slip: Add sends without looking at the context
WalkFn_NoCtx ==
  /\ Running
  /\ travPc = "walk" /\ subPc = "idle"
  /\ walkPos <= Len(tree)
  /\ LET e == tree[walkPos]
         r == DefaultWalkDirFunc(e)
     IN  IF r # "nil"
         THEN /\ IF r = ErrSkipFile
                 THEN walkPos' = walkPos + 1 /\ UNCHANGED <<travPc, walkDirErr>>
                 ELSE travPc' = "ret" /\ walkDirErr' = r /\ UNCHANGED walkPos
              /\ UNCHANGED <<addCalls, addErrs, subPc, subJob>>
         ELSE /\ addCalls' = addCalls + 1
              /\ subPc' = "send"
              /\ subJob' = [id |-> addCalls + 1, path |-> e.path,
                            algs |-> confAlgs, sums |-> <<>>,
                            err |-> "nil", info |-> "nil"]
              /\ walkPos' = walkPos + 1
              /\ UNCHANGED <<addErrs, travPc, walkDirErr>>
  /\ UNCHANGED <<numGos, ctxDone, inBuf, inClosed, outBuf, outClosed, wg, wpc,
                 wjob, closerPc, cpc, received, panicked, accepted, saw,
                 digested, discarded, emitted, outCloses, acceptedAtCancel,
                 emittedAtCancel, closeCalls, confAlgs, tree, walkErrChan,
                 walkErrClosed, mainPc, jobFuncErr, handled, calls, walkRet,
                 ctxAtCall>>
  /\ UNCHANGED extVars

\* One call of the walk closure: the walkDirFunc decides; ErrSkipFile goes
\* on to the next entry, another error ends fs.WalkDir with it; else
\* pip.Add(path) up to its select, whose error also ends fs.WalkDir.
WalkFn ==
  /\ Running
  /\ travPc = "walk" /\ subPc = "idle"
  /\ walkPos <= Len(tree)
  /\ LET e == tree[walkPos]
         r == DefaultWalkDirFunc(e)
     IN  IF r # "nil"
         THEN /\ IF r = ErrSkipFile
                 THEN walkPos' = walkPos + 1 /\ UNCHANGED <<travPc, walkDirErr>>
                 ELSE travPc' = "ret" /\ walkDirErr' = r /\ UNCHANGED walkPos
              /\ UNCHANGED <<addCalls, addErrs, subPc, subJob>>
         ELSE /\ addCalls' = addCalls + 1
              /\ IF ctxDone
                 THEN /\ addErrs' = addErrs + 1
                      /\ travPc' = "ret" /\ walkDirErr' = "walk canceled"
                      /\ UNCHANGED <<subPc, subJob, walkPos>>
                 ELSE /\ subPc' = "send"
                      /\ subJob' = [id |-> addCalls + 1, path |-> e.path,
                                    algs |-> confAlgs, sums |-> <<>>,
                                    err |-> "nil", info |-> "nil"]
                      /\ walkPos' = walkPos + 1
                      /\ UNCHANGED <<addErrs, travPc, walkDirErr>>
  /\ UNCHANGED <<numGos, ctxDone, inBuf, inClosed, outBuf, outClosed, wg, wpc,
                 wjob, closerPc, cpc, received, panicked, accepted, saw,
                 digested, discarded, emitted, outCloses, acceptedAtCancel,
                 emittedAtCancel, closeCalls, confAlgs, tree, walkErrChan,
                 walkErrClosed, mainPc, jobFuncErr, handled, calls, walkRet,
                 ctxAtCall>>
  /\ UNCHANGED extVars

\* walkErrChan <- fs.WalkDir(...), with nil when every entry was visited,
\* then the deferred close(walkErrChan)
WalkDirReturn ==
  /\ Running
  /\ \/ travPc = "ret"
     \/ travPc = "walk" /\ subPc = "idle" /\ walkPos > Len(tree)
  /\ walkErrChan' = Append(walkErrChan, walkDirErr)
  /\ walkErrClosed' = TRUE
  /\ travPc' = "closePipe"
  /\ UNCHANGED <<numGos, ctxDone, inBuf, inClosed, outBuf, outClosed, wg, wpc,
                 wjob, closerPc, subPc, subJob, cpc, received, panicked,
                 addCalls, addErrs, accepted, saw, digested, discarded,
                 emitted, outCloses, acceptedAtCancel, emittedAtCancel,
                 closeCalls, confAlgs, tree, walkPos, walkDirErr, mainPc,
                 jobFuncErr, handled, calls, walkRet, ctxAtCall>>
  /\ UNCHANGED extVars

\* the deferred pip.Close() of the traversal goroutine
WalkClose == travPc = "closePipe" /\ Close

\* the receive with a slip: the worker itself invokes the callback with its
\* Job, on the worker's goroutine, instead of sending the Job on pipe.out
WalkRecv_WorkerCalls(w) ==
  /\ Running /\ w \in Workers
  /\ mainPc = "drain"
  /\ wpc[w] = "send"
  /\ \E r \in JobFuncResults :
       calls' = Append(calls, [job |-> wjob[w], err |-> wjob[w].err, ret |-> r])
  /\ emitted' = Append(emitted, wjob[w])
  /\ wjob' = [wjob EXCEPT ![w] = NoJob]
  /\ wpc' = [wpc EXCEPT ![w] = "range"]
  /\ UNCHANGED <<numGos, ctxDone, inBuf, inClosed, outBuf, outClosed, wg,
                 closerPc, subPc, subJob, cpc, received, panicked, addCalls,
                 addErrs, accepted, saw, digested, discarded, outCloses,
                 acceptedAtCancel, emittedAtCancel, closeCalls, confAlgs,
                 tree, walkPos, travPc, walkDirErr, walkErrChan,
                 walkErrClosed, mainPc, jobFuncErr, handled, walkRet,
                 ctxAtCall>>
  /\ UNCHANGED extVars

\* for complete := range pip.Out(): the loop is at its receive, and worker
\* w's send on pipe.out completes
WalkRecv(w) == mainPc = "drain" /\ handled = Len(received) /\ WorkerSend(w)

\* the loop body with a slip: a Job that carries an error is not passed to
\* the callback
WalkEach_SkipFailedJobs ==
  /\ Running
  /\ mainPc = "drain" /\ handled < Len(received)
  /\ handled' = handled + 1
  /\ LET j == received[handled + 1]
     IN  IF jobFuncErr = "nil" /\ j.err = "nil"
         THEN \E r \in JobFuncResults :
                /\ jobFuncErr' = r
                /\ calls' = Append(calls, [job |-> j, err |-> j.err, ret |-> r])
         ELSE UNCHANGED <<jobFuncErr, calls>>
  /\ UNCHANGED <<numGos, ctxDone, inBuf, inClosed, outBuf, outClosed, wg, wpc,
                 wjob, closerPc, subPc, subJob, cpc, received, panicked,
                 addCalls, addErrs, accepted, saw, digested, discarded,
                 emitted, outCloses, acceptedAtCancel, emittedAtCancel,
                 closeCalls, confAlgs, tree, walkPos, travPc, walkDirErr,
                 walkErrChan, walkErrClosed, mainPc, walkRet, ctxAtCall>>
  /\ UNCHANGED extVars

\* the loop body with a slip: the callback is invoked whatever jobFuncErr
\* holds
WalkEach_Always ==
  /\ Running
  /\ mainPc = "drain" /\ handled < Len(received)
  /\ handled' = handled + 1
  /\ LET j == received[handled + 1]
     IN  \E r \in JobFuncResults :
           /\ jobFuncErr' = r
           /\ calls' = Append(calls, [job |-> j, err |-> j.err, ret |-> r])
  /\ UNCHANGED <<numGos, ctxDone, inBuf, inClosed, outBuf, outClosed, wg, wpc,
                 wjob, closerPc, subPc, subJob, cpc, received, panicked,
                 addCalls, addErrs, accepted, saw, digested, discarded,
                 emitted, outCloses, acceptedAtCancel, emittedAtCancel,
                 closeCalls, confAlgs, tree, walkPos, travPc, walkDirErr,
                 walkErrChan, walkErrClosed, mainPc, walkRet, ctxAtCall>>
  /\ UNCHANGED extVars

\* the loop body with a slip: the loop is left when the callback returns
\* an error, and pip.Out() is received from no more
WalkEach_Break ==
  /\ Running
  /\ mainPc = "drain" /\ handled < Len(received)
  /\ handled' = handled + 1
  /\ LET j == received[handled + 1]
     IN  \E r \in JobFuncResults :
           /\ jobFuncErr' = r
           /\ calls' = Append(calls, [job |-> j, err |-> j.err, ret |-> r])
           /\ cpc' = IF r # "nil" THEN "done" ELSE cpc
  /\ UNCHANGED <<numGos, ctxDone, inBuf, inClosed, outBuf, outClosed, wg, wpc,
                 wjob, closerPc, subPc, subJob, received, panicked,
                 addCalls, addErrs, accepted, saw, digested, discarded,
                 emitted, outCloses, acceptedAtCancel, emittedAtCancel,
                 closeCalls, confAlgs, tree, walkPos, travPc, walkDirErr,
                 walkErrChan, walkErrClosed, mainPc, walkRet, ctxAtCall>>
  /\ UNCHANGED extVars

\* the body of the loop: if jobFuncErr == nil { jobFuncErr = each(...) }
WalkEach ==
  /\ Running
  /\ mainPc = "drain" /\ handled < Len(received)
  /\ handled' = handled + 1
  /\ LET j == received[handled + 1]
     IN  IF jobFuncErr = "nil"
         THEN \E r \in JobFuncResults :
                /\ jobFuncErr' = r
                /\ calls' = Append(calls, [job |-> j, err |-> j.err, ret |-> r])
         ELSE UNCHANGED <<jobFuncErr, calls>>
  /\ UNCHANGED <<numGos, ctxDone, inBuf, inClosed, outBuf, outClosed, wg, wpc,
                 wjob, closerPc, subPc, subJob, cpc, received, panicked,
                 addCalls, addErrs, accepted, saw, digested, discarded,
                 emitted, outCloses, acceptedAtCancel, emittedAtCancel,
                 closeCalls, confAlgs, tree, walkPos, travPc, walkDirErr,
                 walkErrChan, walkErrClosed, mainPc, walkRet, ctxAtCall>>
  /\ UNCHANGED extVars

\* the loop is at its receive and finds pip.Out() closed
WalkRangeEnd == mainPc = "drain" /\ handled = Len(received) /\ ConsumerRange

\* the return of Walk with a slip: only the error of fs.WalkDir is looked at
WalkReturn_OnlyWalkErr ==
  /\ Running
  /\ mainPc = "drain" /\ cpc = "done"
  /\ Len(walkErrChan) > 0 \/ walkErrClosed
  /\ LET walkErr == IF Len(walkErrChan) > 0 THEN Head(walkErrChan) ELSE "nil"
     IN  walkRet' = IF walkErr # "nil"
                    THEN [kind |-> "WalkErr", WalkDirErr |-> walkErr,
                          JobFuncErr |-> jobFuncErr]
                    ELSE [kind |-> "nil"]
  /\ walkErrChan' = IF Len(walkErrChan) > 0 THEN Tail(walkErrChan) ELSE walkErrChan
  /\ mainPc' = "returned"
  /\ UNCHANGED <<numGos, ctxDone, inBuf, inClosed, outBuf, outClosed, wg, wpc,
                 wjob, closerPc, subPc, subJob, cpc, received, panicked,
                 addCalls, addErrs, accepted, saw, digested, discarded,
                 emitted, outCloses, acceptedAtCancel, emittedAtCancel,
                 closeCalls, confAlgs, tree, walkPos, travPc, walkDirErr,
                 walkErrClosed, jobFuncErr, handled, calls, ctxAtCall>>
  /\ UNCHANGED extVars

\* the return of Walk with a slip: the two errors are stored in each
\* other's field
WalkReturn_Swapped ==
  /\ Running
  /\ mainPc = "drain" /\ cpc = "done"
  /\ Len(walkErrChan) > 0 \/ walkErrClosed
  /\ LET walkErr == IF Len(walkErrChan) > 0 THEN Head(walkErrChan) ELSE "nil"
     IN  walkRet' = IF jobFuncErr # "nil" \/ walkErr # "nil"
                    THEN [kind |-> "WalkErr", WalkDirErr |-> jobFuncErr,
                          JobFuncErr |-> walkErr]
                    ELSE [kind |-> "nil"]
  /\ walkErrChan' = IF Len(walkErrChan) > 0 THEN Tail(walkErrChan) ELSE walkErrChan
  /\ mainPc' = "returned"
  /\ UNCHANGED <<numGos, ctxDone, inBuf, inClosed, outBuf, outClosed, wg, wpc,
                 wjob, closerPc, subPc, subJob, cpc, received, panicked,
                 addCalls, addErrs, accepted, saw, digested, discarded,
                 emitted, outCloses, acceptedAtCancel, emittedAtCancel,
                 closeCalls, confAlgs, tree, walkPos, travPc, walkDirErr,
                 walkErrClosed, jobFuncErr, handled, calls, ctxAtCall>>
  /\ UNCHANGED extVars

\* walkErr := <-walkErrChan and the return of Walk
WalkReturn ==
  /\ Running
  /\ mainPc = "drain" /\ cpc = "done"
  /\ Len(walkErrChan) > 0 \/ walkErrClosed
  /\ LET walkErr == IF Len(walkErrChan) > 0 THEN Head(walkErrChan) ELSE "nil"
     IN  walkRet' = IF jobFuncErr # "nil" \/ walkErr # "nil"
                    THEN [kind |-> "WalkErr", WalkDirErr |-> walkErr,
                          JobFuncErr |-> jobFuncErr]
                    ELSE [kind |-> "nil"]
  /\ walkErrChan' = IF Len(walkErrChan) > 0 THEN Tail(walkErrChan) ELSE walkErrChan
  /\ mainPc' = "returned"
  /\ UNCHANGED <<numGos, ctxDone, inBuf, inClosed, outBuf, outClosed, wg, wpc,
                 wjob, closerPc, subPc, subJob, cpc, received, panicked,
                 addCalls, addErrs, accepted, saw, digested, discarded,
                 emitted, outCloses, acceptedAtCancel, emittedAtCancel,
                 closeCalls, confAlgs, tree, walkPos, travPc, walkDirErr,
                 walkErrClosed, jobFuncErr, handled, calls, ctxAtCall>>
  /\ UNCHANGED extVars

\* a call of a method on a nil error: a run-time panic (nil pointer
\* dereference); otherwise the message of the error
ErrorOf(e) == IF e = "nil" THEN [panic |-> TRUE] ELSE [panic |-> FALSE, str |-> e]

\* WalkErr.Error: both fields' Error methods are called to make the
\* arguments of fmt.Sprintf
Error(we) ==
  LET a == ErrorOf(we.WalkDirErr)
      b == ErrorOf(we.JobFuncErr)
  IN  IF a.panic \/ b.panic
      THEN [panic |-> TRUE, str |-> <<>>]
      ELSE [panic |-> FALSE,
            str |-> <<"WalkDirErr: ", a.str, "; JobErr: ", b.str>>]

\* the caller of Walk calls Error on the *WalkErr it was given
CallError ==
  /\ mainPc = "returned" /\ walkRet.kind = "WalkErr"
  /\ errRet = NoCall
  /\ errRet' = [m |-> "Error", we |-> walkRet, ret |-> Error(walkRet)]
  /\ UNCHANGED <<pipeVars, walkVars, jobVars, doVars, confVars, deltaVars,
                 histVars>>

WalkNext ==
  \/ WalkNewPipe
  \/ WalkFn
  \/ \E w \in WorkerIds : AddSend(w)
  \/ WalkDirReturn
  \/ WalkClose
  \/ \E w \in WorkerIds : WorkerRange(w)
  \/ \E w \in WorkerIds : WorkerSelect(w)
  \/ \E w \in WorkerIds : WorkerDo(w)
  \/ \E w \in WorkerIds : WalkRecv(w)
  \/ Closer
  \/ WalkEach
  \/ WalkRangeEnd
  \/ WalkReturn
  \/ CallError
  \/ Cancel

WalkSpec == WalkInit /\ [][WalkNext]_vars

\* the goroutines of a Walk call
WalkTraversal == WalkFn \/ (\E w \in WorkerIds : AddSend(w)) \/ WalkDirReturn \/ WalkClose

WalkWorker(w) == WorkerRange(w) \/ WorkerSelect(w) \/ WorkerDo(w) \/ WalkRecv(w)

WalkMain == WalkNewPipe \/ WalkEach \/ WalkRangeEnd \/ WalkReturn

WalkFairness ==
  /\ WF_vars(WalkTraversal)
  /\ \A w \in WorkerIds : WF_vars(WalkWorker(w))
  /\ WF_vars(Closer)
  /\ WF_vars(WalkMain)

FairWalkSpec == WalkSpec /\ WalkFairness

\* ----------------------------------------------------------- Job accessors
\* The Job of src/job.go (one algorithm: fields sum and valid) and its
\* methods, and Sum / SumString of the Job with several algorithms.
MaxLen == 2       \* longest digest and expected checksum, in bytes

\* the byte values digests are made of
ByteVals == {10, 171}

\* a []byte: nil, or a slice of len(b) bytes
NilSlice == [isNil |-> TRUE, b |-> <<>>]

MakeSlice(b) == [isNil |-> FALSE, b |-> b]

ByteSeqs(n) == UNION {[1..k -> ByteVals] : k \in 0..n}

\* the values a caller passes to JobSum
Slices == {NilSlice} \cup {MakeSlice(b) : b \in ByteSeqs(MaxLen)}

\* the values hash.Sum(nil) returns: the digest, never empty
Digests == {MakeSlice(b) : b \in ByteSeqs(MaxLen) \ {<<>>}}

\* bytes.Equal: same length and the same byte at every index; a nil slice
\* equals an empty one
BytesEqual(a, b) ==
  /\ Len(a.b) = Len(b.b)
  /\ \A i \in 1..Len(a.b) : a.b[i] = b.b[i]

\* copy(dst, src): the first min(len(dst), len(src)) bytes of dst are
\* overwritten; dst keeps its length
CopyBytes(dst, src) ==
  LET n == IF Len(dst.b) < Len(src.b) THEN Len(dst.b) ELSE Len(src.b)
  IN  [dst EXCEPT !.b = [i \in 1..Len(dst.b) |-> IF i <= n THEN src.b[i] ELSE dst.b[i]]]

\* make([]byte, n)
MakeBytes(n) == MakeSlice([i \in 1..n |-> 0])

HexDigits == <<"0", "1", "2", "3", "4", "5", "6", "7", "8", "9", "a", "b",
               "c", "d", "e", "f">>

\* hex.EncodeToString: two digits per byte, high half first
RECURSIVE HexEncodeToString(_)
HexEncodeToString(s) ==
  IF Len(s.b) = 0 THEN ""
  ELSE HexDigits[(Head(s.b) \div 16) + 1] \o HexDigits[(Head(s.b) % 16) + 1]
       \o HexEncodeToString([s EXCEPT !.b = Tail(s.b)])

\* JobSum(sum): the option that sets the expected checksum
JobSum(j, s) == [j EXCEPT !.valid = s]

\* newJob(path, opts...): with the option JobSum(s) when given is TRUE
newJob(path, given, s) ==
  LET j == [path |-> path, valid |-> NilSlice, sum |-> NilSlice,
            sums |-> <<>>, err |-> "nil", ran |-> FALSE]
  IN  IF given THEN JobSum(j, s) ELSE j

\* Job.Sum of src/job.go
Sum(j) ==
  LET s == NilSlice
  IN  CopyBytes(s, j.sum)

\* Job.Expected
Expected(j) ==
  LET s == NilSlice
  IN  CopyBytes(s, j.sum)

\* Job.SumString of src/job.go
SumString(j) == HexEncodeToString(j.sum)

\* Job.IsValid with a slip: the test of j.sum against nil is missing
IsValid_NoNilCheck(j) == BytesEqual(j.sum, j.valid)

\* Job.IsValid
IsValid(j) == ~j.sum.isNil /\ BytesEqual(j.sum, j.valid)

\* Job.Sum of the Job with several algorithms: a copy of the first checksum
SumFirst(j) ==
  IF Len(j.sums) = 0 THEN NilSlice
  ELSE LET s == MakeBytes(Len(j.sums[1].b))
       IN  CopyBytes(s, j.sums[1])

\* Job.SumString of the Job with several algorithms
SumStringFirst(j) == HexEncodeToString(SumFirst(j))

\* a Job made by newJob, not yet run
JobInit ==
  /\ \E given \in BOOLEAN, s \in Slices : aJob = newJob("file.txt", given, s)
  /\ aRet = NoCall

\* Job.do on a file: an error of Open, Stat or io.Copy, or else the
\* checksum hash.Sum(nil), here any digest (sums holds it once more per
\* further algorithm in the Job with several algorithms)
JobDo ==
  /\ ~aJob.ran
  /\ \/ \E e \in {"open", "stat", "read"} :
          aJob' = [aJob EXCEPT !.err = e, !.ran = TRUE]
     \/ \E d \in Digests, more \in {<<>>} \cup {<<x>> : x \in Digests} :
          aJob' = [aJob EXCEPT !.sum = d, !.sums = <<d>> \o more, !.ran = TRUE]
  /\ UNCHANGED aRet
  /\ UNCHANGED notJobVars

\* a call of one method on the Job: the Job as it is at the call and the
\* value returned
CallSum ==
  /\ aRet' = [m |-> "Sum", job |-> aJob, ret |-> Sum(aJob)]
  /\ UNCHANGED <<aJob, notJobVars>>

CallExpected ==
  /\ aRet' = [m |-> "Expected", job |-> aJob, ret |-> Expected(aJob)]
  /\ UNCHANGED <<aJob, notJobVars>>

CallSumString ==
  /\ aRet' = [m |-> "SumString", job |-> aJob, ret |-> SumString(aJob)]
  /\ UNCHANGED <<aJob, notJobVars>>

CallIsValid ==
  /\ aRet' = [m |-> "IsValid", job |-> aJob, ret |-> IsValid(aJob)]
  /\ UNCHANGED <<aJob, notJobVars>>

CallSumFirst ==
  /\ aRet' = [m |-> "SumFirst", job |-> aJob, ret |-> SumFirst(aJob)]
  /\ UNCHANGED <<aJob, notJobVars>>

CallSumStringFirst ==
  /\ aRet' = [m |-> "SumStringFirst", job |-> aJob, ret |-> SumStringFirst(aJob)]
  /\ UNCHANGED <<aJob, notJobVars>>

\* no pipe has been made and Walk has not been called
PipeIdle ==
  /\ confN = 1 /\ numGos = 1 /\ serial = FALSE /\ ctxDone = FALSE
  /\ inBuf = <<>> /\ inClosed = FALSE
  /\ outBuf = <<>> /\ outClosed = FALSE
  /\ wg = 0
  /\ wpc = [w \in 1..numGos |-> "unborn"]
  /\ wjob = [w \in 1..numGos |-> NoJob]
  /\ closerPc = "unborn"
  /\ subPc = "idle" /\ subJob = NoJob
  /\ cpc = "unborn" /\ received = <<>>
  /\ panicked = "none"
  /\ addCalls = 0 /\ addErrs = 0 /\ accepted = {}
  /\ saw = [i \in JobIds |-> "none"]
  /\ digested = {} /\ discarded = {} /\ emitted = <<>>
  /\ outCloses = 0 /\ acceptedAtCancel = 0 /\ emittedAtCancel = 0
  /\ closeCalls = 0
  /\ confAlgs = Algs
  /\ tree = <<>> /\ walkPos = 0 /\ travPc = "unborn" /\ walkDirErr = "nil"
  /\ walkErrChan = <<>> /\ walkErrClosed = FALSE
  /\ mainPc = "none" /\ jobFuncErr = "nil" /\ handled = 0 /\ calls = <<>>
  /\ walkRet = NoRet /\ ctxAtCall = FALSE

JobSpecInit == PipeIdle /\ JobInit /\ DoIdle /\ DeltaIdle /\ ErrIdle /\ HistIdle

JobNext ==
  \/ JobDo
  \/ CallSum
  \/ CallExpected
  \/ CallSumString
  \/ CallIsValid
  \/ CallSumFirst
  \/ CallSumStringFirst

JobSpec == JobSpecInit /\ [][JobNext]_vars

\* ----------------------------------------------------------------- Job.do
\* Job.do step by step: the calls it makes on the file and on the
\* accumulators.
AlgChoices == {<<"md5">>, <<"sha512">>, Algs, <<"sha512", "md5">>}

\* the files do is run on
DoPaths == Paths \cup {"empty.txt", "big.bin", "bad.bin"}

\* a Job as a worker passes it to do: made by Add, or carrying an error
DoInit ==
  /\ \E path \in DoPaths, algs \in AlgChoices, e \in {"nil", "prior"} :
       dIn = [id |-> 1, path |-> path, algs |-> algs, sums |-> <<>>,
              err |-> e, info |-> "nil"]
  /\ dJob = dIn
  /\ dPc = "start"
  /\ dHashes = <<>> /\ dPos = 0 /\ dChunk = "none" /\ dNext = 0
  /\ dLog = <<>>

\* if j.err != nil { return }; file, j.err = j.fs.Open(j.path)
DoOpen ==
  /\ dPc = "start"
  /\ IF dJob.err # "nil"
     THEN dPc' = "done" /\ UNCHANGED <<dJob, dLog>>
     ELSE /\ dLog' = Append(dLog, <<"open", dJob.path>>)
          /\ IF FsOpenErr(dJob.path) # "nil"
             THEN /\ dJob' = [dJob EXCEPT !.err = FsOpenErr(dJob.path)]
                  /\ dPc' = "done"
             ELSE dPc' = "stat" /\ UNCHANGED dJob
  /\ UNCHANGED <<dIn, dHashes, dPos, dChunk, dNext>>
  /\ UNCHANGED notDoVars

\* j.info, j.err = file.Stat()
DoStat ==
  /\ dPc = "stat"
  /\ dLog' = Append(dLog, <<"stat", dJob.path>>)
  /\ IF FsStatErr(dJob.path) # "nil"
     THEN /\ dJob' = [dJob EXCEPT !.err = FsStatErr(dJob.path)]
          /\ dPc' = "close"
     ELSE /\ dJob' = [dJob EXCEPT !.info = "info"]
          /\ dPc' = "hashes"
  /\ UNCHANGED <<dIn, dHashes, dPos, dChunk, dNext>>
  /\ UNCHANGED notDoVars

\* the loop over j.algs that makes hashes and writers
DoNewHashes ==
  /\ dPc = "hashes"
  /\ dHashes' = [i \in DOMAIN dJob.algs |-> NewHash(dJob.algs[i])]
  /\ dPc' = "read"
  /\ UNCHANGED <<dIn, dJob, dPos, dChunk, dNext, dLog>>
  /\ UNCHANGED notDoVars

\* io.Copy: one Read on the file; a chunk goes to the writers, io.EOF ends
\* the copy with nil, another error ends it with that error
DoRead ==
  /\ dPc = "read"
  /\ IF dPos < Len(FsChunks(dJob.path))
     THEN /\ dChunk' = FsChunks(dJob.path)[dPos + 1]
          /\ dPos' = dPos + 1
          /\ dNext' = 1
          /\ dLog' = Append(dLog, <<"read", FsChunks(dJob.path)[dPos + 1]>>)
          /\ dPc' = "write"
          /\ UNCHANGED dJob
     ELSE /\ dLog' = Append(dLog, <<"read", "end">>)
          /\ IF FsReadErr(dJob.path) # "nil"
             THEN /\ dJob' = [dJob EXCEPT !.err = FsReadErr(dJob.path)]
                  /\ dPc' = "close"
             ELSE dPc' = "sums" /\ UNCHANGED dJob
          /\ UNCHANGED <<dPos, dChunk, dNext>>
  /\ UNCHANGED <<dIn, dHashes>>
  /\ UNCHANGED notDoVars

\* io.MultiWriter.Write with a slip: only the first writer gets the chunk
DoWrite_FirstOnly ==
  /\ dPc = "write"
  /\ dHashes' = [dHashes EXCEPT ![dNext] = HashWrite(@, dChunk)]
  /\ dLog' = Append(dLog, <<"write", dNext, dChunk>>)
  /\ dPc' = "read" /\ UNCHANGED dNext
  /\ UNCHANGED <<dIn, dJob, dPos, dChunk>>
  /\ UNCHANGED notDoVars

\* io.MultiWriter.Write: the chunk is written to the next writer; after the
\* last writer io.Copy reads again
DoWrite ==
  /\ dPc = "write"
  /\ dHashes' = [dHashes EXCEPT ![dNext] = HashWrite(@, dChunk)]
  /\ dLog' = Append(dLog, <<"write", dNext, dChunk>>)
  /\ IF dNext < Len(dHashes)
     THEN dNext' = dNext + 1 /\ UNCHANGED dPc
     ELSE dPc' = "read" /\ UNCHANGED dNext
  /\ UNCHANGED <<dIn, dJob, dPos, dChunk>>
  /\ UNCHANGED notDoVars

\* j.sums = append(j.sums, hashes[i].Sum(nil)) for each i
DoSums ==
  /\ dPc = "sums"
  /\ dJob' = [dJob EXCEPT !.sums = [i \in DOMAIN dHashes |-> HashSum(dHashes[i])]]
  /\ dPc' = "close"
  /\ UNCHANGED <<dIn, dHashes, dPos, dChunk, dNext, dLog>>
  /\ UNCHANGED notDoVars

\* the deferred file.Close() and the return
DoClose ==
  /\ dPc = "close"
  /\ dLog' = Append(dLog, <<"close", dJob.path>>)
  /\ dPc' = "done"
  /\ UNCHANGED <<dIn, dJob, dHashes, dPos, dChunk, dNext>>
  /\ UNCHANGED notDoVars

DoSpecInit == PipeIdle /\ JobIdle /\ DoInit /\ DeltaIdle /\ ErrIdle /\ HistIdle

DoNext ==
  \/ DoOpen
  \/ DoStat
  \/ DoNewHashes
  \/ DoRead
  \/ DoWrite
  \/ DoSums
  \/ DoClose

DoSpec == DoSpecInit /\ [][DoNext]_vars

\* ------------------------------------------------------------ package delta
\* delta.New and the methods of Delta.  A Go map is ranged over in an
\* order the program does not choose: every order is taken.
MaxNames == 3     \* number of file names the two FileSets draw from

AllNames == <<"f1", "f2", "f3", "f4", "f5">>

Names == {AllNames[i] : i \in 1..MaxNames}

\* the digests of the FileSets; the empty string is a string too
DigestVals == {"", "abc", "hij"}

\* a FileSet maps file names to digests
FileSets == UNION {[S -> DigestVals] : S \in SUBSET Names}

\* the orders in which a range over a map with the keys S visits them
RECURSIVE Orders(_)
Orders(S) ==
  IF S = {} THEN {<<>>}
  ELSE UNION {{<<x>> \o o : o \in Orders(S \ {x})} : x \in S}

\* new(digestInfo)
NewDigestInfo == [v1Removed |-> <<>>, v2Added |-> <<>>, v1In |-> 0, v2In |-> 0]

\* the first two loops of New: allNames[f] holds f's digest in v1 and in
\* v2, "" where f is not a key
NewAllNames(a, b) ==
  [f \in DOMAIN a \cup DOMAIN b |->
     [v1 |-> IF f \in DOMAIN a THEN a[f] ELSE "",
      v2 |-> IF f \in DOMAIN b THEN b[f] ELSE ""]]

\* allDigests[d] for reading: a key that is not there yet is a new
\* digestInfo
InfoAt(allDigests, d) ==
  IF d \in DOMAIN allDigests THEN allDigests[d] ELSE NewDigestInfo

\* allDigests with the entry for d set to info
WithInfo(allDigests, d, info) ==
  [x \in DOMAIN allDigests \cup {d} |-> IF x = d THEN info ELSE allDigests[x]]

\* the body of the third loop of New for the name f
NewStep(allDigests, f, digs) ==
  LET a1 == IF digs.v1 # ""
            THEN WithInfo(allDigests, digs.v1,
                          [InfoAt(allDigests, digs.v1) EXCEPT !.v1In = @ + 1])
            ELSE allDigests
      a2 == IF digs.v2 # ""
            THEN WithInfo(a1, digs.v2, [InfoAt(a1, digs.v2) EXCEPT !.v2In = @ + 1])
            ELSE a1
  IN  IF digs.v1 = "" /\ digs.v2 # ""
      THEN WithInfo(a2, digs.v2, [a2[digs.v2] EXCEPT !.v2Added = Append(@, f)])
      ELSE IF digs.v1 # "" /\ digs.v2 = ""
      THEN WithInfo(a2, digs.v1, [a2[digs.v1] EXCEPT !.v1Removed = Append(@, f)])
      ELSE a2

\* the third loop of New, ranging over allNames in the order ord
RECURSIVE NewLoop(_, _, _)
NewLoop(allDigests, allNames, ord) ==
  IF ord = <<>> THEN allDigests
  ELSE NewLoop(NewStep(allDigests, Head(ord), allNames[Head(ord)]),
               allNames, Tail(ord))

\* delta.New(v1, v2) when its third loop takes the order ord
New(a, b, ord) ==
  [made |-> TRUE,
   allNames |-> NewAllNames(a, b),
   allDigests |-> NewLoop(<<>>, NewAllNames(a, b), ord)]

\* s[from:] of a Go slice, from counted from 0
SliceFrom(s, from) == SubSeq(s, from + 1, Len(s))

\* s[0:to]
SliceTo(s, to) == SubSeq(s, 1, to)

\* Delta.Added with a slip: all of v2Added is taken, the names paired with
\* removed names too
RECURSIVE Added_All(_, _)
Added_All(d, ord) ==
  IF ord = <<>> THEN <<>>
  ELSE LET cd == d.allDigests[Head(ord)]
       IN  (IF Len(cd.v2Added) > Len(cd.v1Removed)
            THEN cd.v2Added
            ELSE <<>>) \o Added_All(d, Tail(ord))

\* Delta.Added when the range over allDigests takes the order ord
RECURSIVE Added(_, _)
Added(d, ord) ==
  IF ord = <<>> THEN <<>>
  ELSE LET cd == d.allDigests[Head(ord)]
       IN  (IF Len(cd.v2Added) > Len(cd.v1Removed)
            THEN SliceFrom(cd.v2Added, Len(cd.v1Removed))
            ELSE <<>>) \o Added(d, Tail(ord))

\* Delta.Removed
RECURSIVE Removed(_, _)
Removed(d, ord) ==
  IF ord = <<>> THEN <<>>
  ELSE LET cd == d.allDigests[Head(ord)]
       IN  (IF Len(cd.v1Removed) > Len(cd.v2Added)
            THEN SliceFrom(cd.v1Removed, Len(cd.v2Added))
            ELSE <<>>) \o Removed(d, Tail(ord))

\* Delta.Renamed without the min: every removed name of a digest is taken
RECURSIVE Renamed_NoMin(_, _)
Renamed_NoMin(d, ord) ==
  IF ord = <<>> THEN <<<<>>, <<>>>>
  ELSE LET cd == d.allDigests[Head(ord)]
           min == IF Len(cd.v1Removed) > Len(cd.v2Added)
                  THEN Len(cd.v2Added) ELSE Len(cd.v1Removed)
           rest == Renamed_NoMin(d, Tail(ord))
       IN  <<cd.v1Removed \o rest[1],
             SliceTo(cd.v2Added, min) \o rest[2]>>

\* Delta.Renamed: the pair of slices (old names, new names)
RECURSIVE Renamed(_, _)
Renamed(d, ord) ==
  IF ord = <<>> THEN <<<<>>, <<>>>>
  ELSE LET cd == d.allDigests[Head(ord)]
           min == IF Len(cd.v1Removed) > Len(cd.v2Added)
                  THEN Len(cd.v2Added) ELSE Len(cd.v1Removed)
           rest == Renamed(d, Tail(ord))
       IN  <<SliceTo(cd.v1Removed, min) \o rest[1],
             SliceTo(cd.v2Added, min) \o rest[2]>>

\* Delta.Modified when the range over allNames takes the order ord
RECURSIVE Modified(_, _)
Modified(d, ord) ==
  IF ord = <<>> THEN <<>>
  ELSE LET digs == d.allNames[Head(ord)]
       IN  (IF digs.v1 = "" \/ digs.v2 = "" THEN <<>>
            ELSE IF digs.v1 # digs.v2 THEN <<Head(ord)>>
            ELSE <<>>) \o Modified(d, Tail(ord))

\* Delta.Same
RECURSIVE Same(_, _)
Same(d, ord) ==
  IF ord = <<>> THEN <<>>
  ELSE LET digs == d.allNames[Head(ord)]
       IN  (IF digs.v1 = digs.v2 THEN <<Head(ord)>> ELSE <<>>)
           \o Same(d, Tail(ord))

\* two FileSets, before New is called; a run is New and then one call of a
\* method on the Delta it returned
DeltaInit ==
  /\ v1 \in FileSets /\ v2 \in FileSets
  /\ delta = NoDelta
  /\ dlRet = NoCall

DeltaNew ==
  /\ ~delta.made
  /\ delta' \in {New(v1, v2, ord) : ord \in Orders(DOMAIN v1 \cup DOMAIN v2)}
  /\ UNCHANGED <<v1, v2, dlRet>>
  /\ UNCHANGED notDeltaVars

CallAdded ==
  /\ delta.made /\ dlRet = NoCall
  /\ \E r \in {Added(delta, ord) : ord \in Orders(DOMAIN delta.allDigests)} :
       dlRet' = [m |-> "Added", ret |-> r]
  /\ UNCHANGED <<v1, v2, delta>>
  /\ UNCHANGED notDeltaVars

CallRemoved ==
  /\ delta.made /\ dlRet = NoCall
  /\ \E r \in {Removed(delta, ord) : ord \in Orders(DOMAIN delta.allDigests)} :
       dlRet' = [m |-> "Removed", ret |-> r]
  /\ UNCHANGED <<v1, v2, delta>>
  /\ UNCHANGED notDeltaVars

CallRenamed ==
  /\ delta.made /\ dlRet = NoCall
  /\ \E r \in {Renamed(delta, ord) : ord \in Orders(DOMAIN delta.allDigests)} :
       dlRet' = [m |-> "Renamed", ret |-> r]
  /\ UNCHANGED <<v1, v2, delta>>
  /\ UNCHANGED notDeltaVars

CallModified ==
  /\ delta.made /\ dlRet = NoCall
  /\ \E r \in {Modified(delta, ord) : ord \in Orders(DOMAIN delta.allNames)} :
       dlRet' = [m |-> "Modified", ret |-> r]
  /\ UNCHANGED <<v1, v2, delta>>
  /\ UNCHANGED notDeltaVars

CallSame ==
  /\ delta.made /\ dlRet = NoCall
  /\ \E r \in {Same(delta, ord) : ord \in Orders(DOMAIN delta.allNames)} :
       dlRet' = [m |-> "Same", ret |-> r]
  /\ UNCHANGED <<v1, v2, delta>>
  /\ UNCHANGED notDeltaVars

DeltaSpecInit == PipeIdle /\ JobIdle /\ DoIdle /\ DeltaInit /\ ErrIdle /\ HistIdle

DeltaNext ==
  \/ DeltaNew
  \/ CallAdded
  \/ CallRemoved
  \/ CallRenamed
  \/ CallModified
  \/ CallSame

DeltaSpec == DeltaSpecInit /\ [][DeltaNext]_vars

\* ----------------------------------------------------------------- claims
Ids(jobs) == {jobs[i].id : i \in DOMAIN jobs}

Occurrences(jobs, id) == Cardinality({i \in DOMAIN jobs : jobs[i].id = id})

Holders(id) == {w \in Workers : wjob[w].id = id}

AllExited == \A w \in Workers : wpc[w] = "exit"

Terminated == AllExited /\ closerPc = "done" /\ outClosed /\ cpc = "done"

\* C1: without cancellation, when the consumer's range over Out() ends
\* (Out reports closed), the submitter has called Close, every Add call was
\* accepted, and the consumer has received exactly one Job per accepted
\* Job: N received for N accepted, none duplicated, none lost.
C1_ExactlyN ==
  (cpc = "done" /\ ~ctxDone) =>
     /\ subPc = "closed"
     /\ Cardinality(accepted) = addCalls
     /\ Len(received) = addCalls
     /\ Ids(received) = accepted
     /\ \A id \in accepted : Occurrences(received, id) = 1

C1_Witness ==
  /\ cpc = "done" /\ ~ctxDone
  /\ numGos = MaxGos
  /\ Len(received) = MaxJobs
  /\ \E i \in DOMAIN received : received[i].err # "nil"

\* C2: every Job handed off by Add is, at any moment, in exactly one place:
\* held by exactly one worker, or sent once on the output queue, or
\* discarded.  It is sent only if its worker's select saw the context not
\* done, and discarded (Job.do not run, nothing sent) only if the select saw
\* it done; no Job is sent twice, none is discarded while the context has
\* never been cancelled, and once all workers have exited every accepted
\* Job is either sent or discarded.
C2_ExactlyOneOutcome ==
  \A id \in accepted :
    LET sent == Occurrences(emitted, id)
        held == Cardinality(Holders(id)) + Occurrences(inBuf, id)
        dropped == IF id \in discarded THEN 1 ELSE 0
    IN  /\ sent <= 1
        /\ held + sent + dropped = 1
        /\ sent = 1 => saw[id] = "clear" /\ id \in digested
        /\ dropped = 1 => saw[id] = "fired" /\ id \notin digested /\ ctxDone
        /\ saw[id] = "clear" => dropped = 0
        /\ saw[id] = "fired" => dropped = 1
        /\ saw[id] = "none" => held = 1
        /\ Occurrences(received, id) <= sent
        /\ AllExited => held = 0

C2_Witness ==
  /\ Terminated
  /\ \E a, b \in accepted :
       /\ a \in discarded /\ Occurrences(received, a) = 0
       /\ b \notin discarded /\ Occurrences(received, b) = 1

\* C3: pipe.out is closed at most once, and once the closing goroutine is
\* done exactly once; it is closed only when every worker has left its loop;
\* no run panics on a send on (or a second close of) a closed channel; and
\* once pipe.out is closed nothing more is sent on it.
C3_CloseAfterWorkers ==
  /\ [](/\ outCloses <= 1
        /\ (outClosed <=> outCloses = 1)
        /\ (closerPc = "done" => outCloses = 1)
        /\ (outClosed => AllExited /\ wg = 0)
        /\ panicked = "none")
  /\ [][outClosed => emitted' = emitted /\ outCloses' = outCloses]_vars

C3_Witness ==
  /\ outClosed /\ outCloses = 1
  /\ numGos = MaxGos
  /\ ctxDone /\ discarded # {}
  /\ Len(emitted) >= 1

\* C4: under fair scheduling, with a submitter that ends with Close and a
\* consumer that ranges over Out(), every run reaches the state where all
\* workers and the closing goroutine have terminated, pipe.out is closed
\* and the consumer's range has ended; and in every state short of that,
\* some goroutine can take a step (no state has all goroutines blocked).
C4_Terminates ==
  /\ <>Terminated
  /\ [](Terminated \/ ENABLED (Submitter \/ (\E w \in WorkerIds : Worker(w))
                                \/ Closer \/ ConsumerRange))

C4_Witness ==
  /\ Terminated
  /\ numGos = MaxGos
  /\ ctxDone /\ discarded # {}
  /\ Len(received) >= 1

\* C5: once the context is cancelled, with K Add calls accepted at that
\* moment, the number of Jobs ever sent on pipe.out is at most K.
C5_AtMostK == ctxDone => Len(emitted) <= acceptedAtCancel

C5_Witness ==
  /\ Terminated /\ ctxDone
  /\ acceptedAtCancel = 2
  /\ Len(emitted) = 1

\* C6: an Add call that starts when the context is already cancelled
\* returns its error in that same step (the submitter is not left sending),
\* and changes neither queue, no worker, and no count of accepted, sent,
\* received or discarded Jobs.
C6_AddAfterCancel ==
  [][(ctxDone /\ addCalls' # addCalls) =>
        /\ addErrs' = addErrs + 1
        /\ subPc' = "idle" /\ subJob' = NoJob
        /\ UNCHANGED <<inBuf, inClosed, outBuf, outClosed, wg, wpc, wjob,
                       closerPc, cpc, received, accepted, saw, digested,
                       discarded, emitted, outCloses>>]_vars

C6_Witness ==
  /\ ctxDone /\ addErrs >= 1 /\ subPc = "idle"
  /\ \A w \in Workers : wpc[w] \in {"do", "send"}

\* C7: a worker that is running Job.do or is blocked sending the result
\* keeps that Job until Job.do has completed on it and it has been sent on
\* pipe.out, whether or not the context is cancelled meanwhile; and from
\* some point on every Job whose select saw the context live has been
\* received from Out().
C7_InProgressCompletes ==
  /\ [][\A w \in WorkerIds :
          (w \in Workers /\ wpc[w] \in {"do", "send"}) =>
             \/ wpc'[w] = wpc[w] /\ wjob'[w] = wjob[w]
             \/ /\ wpc[w] = "do" /\ wpc'[w] = "send"
                /\ wjob'[w] = Do(wjob[w])
             \/ /\ wpc[w] = "send" /\ wpc'[w] = "range"
                /\ emitted' = Append(emitted, wjob[w])
                /\ received' = Append(received, wjob[w])]_vars
  /\ <>[](\A id \in JobIds :
             saw[id] = "clear" => Occurrences(received, id) = 1)

C7_Witness ==
  /\ ctxDone
  /\ Len(emitted) > emittedAtCancel
  /\ \E i \in DOMAIN received :
        i > emittedAtCancel /\ saw[received[i].id] = "clear"

\* C8: a worker has left its loop only if pipe.in is closed; and an Add
\* that is blocked sending on pipe.in while the context is cancelled is
\* eventually released (its send completes and it returns).
C8_DrainAfterCancel ==
  /\ [](\A w \in Workers : wpc[w] = "exit" => inClosed)
  /\ (ctxDone /\ subPc = "send") ~> (subPc = "idle")

C8_Witness ==
  /\ ctxDone /\ ~inClosed /\ subPc = "idle"
  /\ Cardinality(accepted) > acceptedAtCancel
  /\ Cardinality(discarded) >= 2
  /\ \A w \in Workers : wpc[w] = "range"

\* C9: neither channel holds a Job, every accepted Job has been received by
\* a worker, and the number of Jobs accepted by Add that are neither
\* received by the consumer nor discarded is at most the worker count.
C9_Backpressure ==
  /\ inBuf = <<>> /\ outBuf = <<>>
  /\ \A id \in accepted :
       Holders(id) # {} \/ id \in discarded \/ id \in Ids(emitted)
  /\ Cardinality(accepted) - Len(received) - Cardinality(discarded) <= numGos

C9_Witness ==
  /\ Cardinality(accepted) - Len(received) - Cardinality(discarded) = numGos
  /\ subPc = "send"
  /\ \A w \in Workers : wpc[w] = "send"

\* the path is one on which Job.do meets an error
PathFails(path) ==
  FsOpenErr(path) # "nil" \/ FsStatErr(path) # "nil" \/ FsReadErr(path) # "nil"

\* C10: a Job whose Open, Stat or Read fails is sent on pipe.out with a
\* non-nil error; a worker that has sent a Job goes back to its range over
\* pipe.in (it does not leave the loop); and without cancellation, when the
\* consumer's range ends, every accepted Job with a failing path has been
\* received with its error.
C10_ErrorsDoNotStopPool ==
  /\ [](/\ \A i \in DOMAIN emitted :
             PathFails(emitted[i].path) <=> emitted[i].err # "nil"
        /\ (cpc = "done" /\ ~ctxDone) =>
             \A id \in accepted : \E i \in DOMAIN received :
                /\ received[i].id = id
                /\ PathFails(received[i].path) => received[i].err # "nil")
  /\ [][\A w \in WorkerIds :
          (w \in Workers /\ wpc[w] = "send" /\ wpc'[w] # "send") =>
             wpc'[w] = "range" /\ wg' = wg]_vars

C10_Witness ==
  /\ numGos = 1
  /\ cpc = "done" /\ outClosed /\ subPc = "closed"
  /\ Len(received) = 2
  /\ received[1].path = "nofile" /\ received[1].err # "nil"
  /\ received[2].path = "." /\ received[2].err # "nil"

\* C11: every Job sent on pipe.out either has a nil error and one digest
\* per requested algorithm (the i-th digest made by the i-th algorithm), or
\* has a non-nil error and no digest at all.
C11_AllOrNothing ==
  \A i \in DOMAIN emitted :
    LET j == emitted[i]
    IN  \/ /\ j.err = "nil"
           /\ Len(j.sums) = Len(j.algs)
           /\ \A k \in DOMAIN j.sums : j.sums[k][1] = j.algs[k]
        \/ /\ j.err # "nil"
           /\ j.sums = <<>>

C11_Witness ==
  /\ \E i \in DOMAIN emitted :
        emitted[i].err = "nil" /\ Len(emitted[i].sums) = Len(Algs)
  /\ \E i \in DOMAIN emitted :
        emitted[i].err = "read" /\ emitted[i].sums = <<>>

\* C12: with no algorithm configured, Walk returns the error of NewPipe and
\* nothing else happens: no worker and no other goroutine is started, no
\* entry of the tree is visited, no path is added, the callback is never
\* invoked.
C12_NoAlgsFails ==
  (Len(confAlgs) = 0 /\ mainPc # "call") =>
    /\ mainPc = "returned"
    /\ walkRet = [kind |-> "error", err |-> "checksum algorithms not defined"]
    /\ wg = 0
    /\ \A w \in Workers : wpc[w] = "unborn"
    /\ closerPc = "unborn" /\ travPc = "unborn" /\ cpc = "unborn"
    /\ walkPos = 1 /\ addCalls = 0
    /\ calls = <<>> /\ received = <<>>

C12_Witness ==
  /\ Len(confAlgs) = 0
  /\ Len(tree) > 1
  /\ mainPc = "returned"
  /\ walkRet.kind = "error"

\* a step in which a call of Add returns: with the error of its select, or
\* with nil after its send
AddReturns ==
  \/ addErrs' = addErrs + 1
  \/ subPc = "send" /\ subPc' = "idle"

\* a step in which a call of Close returns
CloseReturns == subPc = "idle" /\ subPc' = "closed"

\* C13 as stated: on a pipe whose input channel is closed, no call of Close
\* and no call of Add returns, and no Job is enqueued.
C13_Original ==
  [][inClosed => /\ ~CloseReturns
                 /\ ~AddReturns
                 /\ accepted' = accepted /\ inBuf' = inBuf]_vars

\* C13: on a pipe whose input channel is closed, Close panics, and Add
\* panics at its send unless the context is done, in which case Add
\* returns its error; in no case is a Job enqueued or does Add return nil.
C13_ClosedIsFatal ==
  [][inClosed =>
       /\ ~CloseReturns
       /\ closeCalls' # closeCalls => panicked' = "close of closed channel"
       /\ AddReturns => ctxDone /\ addErrs' = addErrs + 1 /\ panicked' = "none"
       /\ (addCalls' # addCalls /\ ~ctxDone) => subPc' = "send"
       /\ (subPc = "send" /\ panicked' # panicked) =>
             panicked' = "send on closed channel"
       /\ accepted' = accepted /\ inBuf' = inBuf]_vars

C13_Witness == inClosed /\ panicked = "send on closed channel"

\* the invocations of the callback that returned an error
FailedCalls == {i \in DOMAIN calls : calls[i].ret # "nil"}

\* the first error a callback invocation returned, "nil" if none did
FirstJobFuncErr ==
  IF FailedCalls = {} THEN "nil"
  ELSE calls[CHOOSE i \in FailedCalls : \A k \in FailedCalls : i <= k].ret

\* fs.WalkDir met an error of its own or a cancelled Add
TraversalFailed ==
  \/ \E i \in 1..walkPos : i <= Len(tree) /\ tree[i].err # "nil"
  \/ addErrs > 0

C15_CallbackErrStaysCallbackErr ==
  (mainPc = "returned" /\ FailedCalls # {} /\ ~TraversalFailed) =>
    /\ walkRet.kind = "WalkErr"
    /\ walkRet.JobFuncErr # "nil"
    /\ walkRet.WalkDirErr = "nil"

C15_Witness ==
  /\ mainPc = "returned"
  /\ FailedCalls # {} /\ ~TraversalFailed
  /\ walkRet.kind = "WalkErr" /\ walkRet.WalkDirErr = "nil"
  /\ ~ctxDone

\* C16 as stated: the callback has been invoked once for each Job the loop
\* has taken from pip.Out(), in order, with that Job and its error.
C16_Original ==
  /\ Len(calls) = handled
  /\ \A i \in DOMAIN calls :
       calls[i].job = received[i] /\ calls[i].err = received[i].err

\* C16: the callback is invoked once, with the Job and its error, for each
\* Job the loop takes from pip.Out() up to and including the first one for
\* which the callback returns an error, and for no Job after that one.
C16_OncePerJobUntilError ==
  /\ Len(calls) <= handled
  /\ \A i \in DOMAIN calls :
       calls[i].job = received[i] /\ calls[i].err = received[i].err
  /\ \A i \in 1..handled :
       i \in DOMAIN calls <=>
         \A k \in 1..(i - 1) : k \in DOMAIN calls /\ calls[k].ret = "nil"

C16_Witness ==
  /\ Len(calls) = 1 /\ calls[1].ret = "stop"
  /\ handled = 2

\* C17: once a callback invocation has returned an error, no step of Walk
\* invokes the callback again.
C17_NoCallAfterError == [][FailedCalls # {} => calls' = calls]_vars

C17_Witness ==
  /\ mainPc = "returned"
  /\ FailedCalls # {}
  /\ Len(received) > Len(calls)

\* C18: once a callback invocation has returned an error, the traversal
\* makes no further call of Add, so that no path that was not yet added is
\* added or digested.
C18_StopsAddingOnCallbackError ==
  [][FailedCalls # {} => addCalls' = addCalls]_vars

\* every goroutine of a Walk call has finished: the traversal goroutine
\* has closed pipe.in, every worker has left its loop, pipe.out is closed,
\* the loop over pip.Out() has seen it closed, and Walk has returned
WalkDone ==
  /\ mainPc = "returned" /\ walkRet # NoRet
  /\ Len(confAlgs) > 0 =>
       /\ travPc = "closePipe" /\ subPc = "closed" /\ inClosed
       /\ AllExited /\ wg = 0
       /\ closerPc = "done" /\ outClosed
       /\ cpc = "done" /\ handled = Len(received)

\* C19: under fair scheduling every Walk call, whatever the tree, the
\* number of workers, the moment of cancellation and the results of the
\* callback, reaches the state where Walk has returned and every goroutine
\* it started has finished; in every state short of that some goroutine
\* can take a step.
C19_WalkReturns ==
  /\ <>[]WalkDone
  /\ [](WalkDone \/ ENABLED (WalkTraversal \/ (\E w \in WorkerIds : WalkWorker(w))
                              \/ Closer \/ WalkMain))

C19_Witness ==
  /\ WalkDone
  /\ numGos = MaxGos
  /\ ctxDone
  /\ FailedCalls # {}
  /\ Len(received) > Len(calls)
  /\ walkRet.kind = "WalkErr"

\* the tree holds a regular file
HasRegularFile == \E i \in DOMAIN tree : tree[i].kind = "file"

C21_CallbackOnCallerInOrder ==
  /\ [](\A i \in DOMAIN calls :
          i \in DOMAIN received /\ calls[i].job = received[i])
  /\ [][calls' # calls =>
          /\ mainPc = "drain" /\ handled < Len(received)
          /\ handled' = handled + 1 /\ handled' = Len(received)
          /\ received' = received /\ wpc' = wpc
          /\ Len(calls') = Len(calls) + 1
          /\ calls'[Len(calls')].job = received[handled']]_vars

C21_Witness ==
  /\ numGos > 1
  /\ Len(calls) = 2
  /\ calls[1].job.id = 2 /\ calls[2].job.id = 1

\* C22: IsValid returns true if and only if the Job has a checksum and it
\* is the same sequence of bytes as the expected checksum; a checksum of
\* another length, another byte at any index, or no checksum gives false.
C22_IsValidIffEqual ==
  aRet.m = "IsValid" =>
    (aRet.ret <=> /\ ~aRet.job.sum.isNil
                  /\ aRet.job.sum.b = aRet.job.valid.b)

C22_Witness ==
  /\ aRet.m = "IsValid" /\ aRet.ret = TRUE
  /\ Len(aRet.job.valid.b) = MaxLen

\* the positions in the log of the calls of one kind
LogOf(kind) == {p \in DOMAIN dLog : dLog[p][1] = kind}

\* the positions in the log of the Reads that returned a chunk
DataReads == {p \in LogOf("read") : dLog[p][2] # "end"}

\* the chunks the Reads returned, in the order of the log
ChunksRead == SelectSeq(dLog, LAMBDA e : e[1] = "read" /\ e[2] # "end")

\* C23: whatever the number k of algorithms, do opens the file at most
\* once and reads it in one pass from the start (the chunks read are the
\* file's chunks in order, each once; all of them when do succeeds), and
\* each chunk read is written to the writers 1..k in that order before the
\* next Read; no writer gets anything else.
C23_OneReadPass ==
  LET k == Len(dJob.algs)
      content == FsChunks(dJob.path)
  IN  /\ Cardinality(LogOf("open")) <= 1
      /\ (dPc = "done" /\ dIn.err = "nil") => Cardinality(LogOf("open")) = 1
      /\ Len(ChunksRead) <= Len(content)
      /\ \A i \in DOMAIN ChunksRead : ChunksRead[i][2] = content[i]
      /\ (dPc = "done" /\ dJob.err = "nil") =>
            /\ Len(ChunksRead) = Len(content)
            /\ Cardinality(LogOf("read")) = Len(content) + 1
      /\ \A p \in DataReads : \A i \in 1..k :
            /\ p + i <= Len(dLog) => dLog[p + i] = <<"write", i, dLog[p][2]>>
            /\ dPc # "write" => p + i <= Len(dLog)
      /\ \A q \in LogOf("write") :
            /\ q - dLog[q][2] \in DataReads
            /\ dLog[q - dLog[q][2]][2] = dLog[q][3]

C23_Witness ==
  /\ dPc = "done" /\ dJob.err = "nil"
  /\ Len(dJob.algs) = 2
  /\ Len(ChunksRead) = 3
  /\ Cardinality(LogOf("write")) = 6

\* the digest of a file by one algorithm alone: the algorithm applied to
\* the whole content of the file
DigestOf(alg, path) == <<alg, FsChunks(path)>>

\* every digest of a Job without error is that of its file by the
\* algorithm at the same position
DigestsRight(j) ==
  j.err = "nil" =>
    /\ Len(j.sums) = Len(j.algs)
    /\ \A k \in DOMAIN j.algs : j.sums[k] = DigestOf(j.algs[k], j.path)

\* C24: every Job that completed without error, on whichever of the 1..n
\* workers it ran, holds for each of its algorithms, at that algorithm's
\* position, the digest of the whole content of its file by that algorithm;
\* and do gives these digests for every file and every choice and order of
\* algorithms.
C24_DigestsOfContent ==
  /\ \A i \in DOMAIN emitted : DigestsRight(emitted[i])
  /\ \A w \in Workers : wpc[w] = "send" => DigestsRight(wjob[w])
  /\ \A path \in DoPaths, algs \in AlgChoices :
       DigestsRight(Do([id |-> 1, path |-> path, algs |-> algs,
                        sums |-> <<>>, err |-> "nil", info |-> "nil"]))

C24_Witness ==
  /\ numGos = MaxGos
  /\ \E i \in DOMAIN emitted :
       /\ emitted[i].path = "file.txt" /\ emitted[i].err = "nil"
       /\ emitted[i].sums = <<DigestOf("md5", "file.txt"), DigestOf("sha512", "file.txt")>>
  /\ \E w \in Workers : wpc[w] = "send" /\ wjob[w].err = "nil"

\* the workers that hold a Job taken from pipe.in
Busy == {w \in DOMAIN wpc : wpc[w] \in {"select", "do", "send"}}

\* C25: with the option WithGos(n) the pipe has max(1, n) workers, all
\* started by NewPipe and each counted once in the WaitGroup until it
\* exits: at least one worker, and at no time more than max(1, n) Jobs
\* taken from pipe.in and not yet sent or dropped.
C25_WorkerCount ==
  /\ numGos = IF confN < 1 THEN 1 ELSE confN
  /\ numGos >= 1
  /\ DOMAIN wpc = 1..numGos
  /\ \A w \in DOMAIN wpc : wpc[w] # "unborn"
  /\ wg + Cardinality({w \in DOMAIN wpc : wpc[w] = "exit"}) = numGos
  /\ Cardinality(Busy) <= numGos
  /\ \A w \in DOMAIN wpc : (wjob[w] # NoJob) <=> (w \in Busy)

C25_Witness ==
  /\ confN < 1 /\ numGos = 1
  /\ wpc[1] = "do"
  /\ subPc = "send"

\* C26: Sum called on a Job that do completed without error returns the
\* bytes of the Job's checksum, the bytes SumString encodes.
C26_SumReturnsChecksum ==
  (aRet.m = "Sum" /\ aRet.job.ran /\ aRet.job.err = "nil") =>
    /\ aRet.ret.b = aRet.job.sum.b
    /\ HexEncodeToString(aRet.ret) = SumString(aRet.job)

\* ---------------------------------------------------------------------
\* package delta: the rename pairs
\* ---------------------------------------------------------------------

\* every digest of both FileSets is a non-empty string
NonEmptyDigests ==
  /\ \A f \in DOMAIN v1 : v1[f] # ""
  /\ \A f \in DOMAIN v2 : v2[f] # ""

\* old and new are of equal length, old[i] is a name of v1 only, new[i] a
\* name of v2 only with the digest old[i] has in v1, and no name is in two
\* pairs
RenamePairs(old, new) ==
  /\ Len(old) = Len(new)
  /\ \A i \in DOMAIN old :
       /\ i \in DOMAIN new
       /\ old[i] \in DOMAIN v1 \ DOMAIN v2
       /\ new[i] \in DOMAIN v2 \ DOMAIN v1
       /\ v1[old[i]] = v2[new[i]]
  /\ \A i, j \in DOMAIN old : i # j => old[i] # old[j]
  /\ \A i, j \in DOMAIN new : i # j => new[i] # new[j]
  /\ \A i \in DOMAIN old : \A j \in DOMAIN new : old[i] # new[j]

\* C27 as stated: for any two FileSets, Renamed returns two slices of equal
\* length, old[i] a name of v1 that is not in v2, new[i] a name of v2 that
\* is not in v1 with the same digest, and no name in more than one pair
C27_Original ==
  dlRet.m = "Renamed" => RenamePairs(dlRet.ret[1], dlRet.ret[2])

\* C27 amended: for two FileSets whose digests are all non-empty strings,
\* Renamed returns two slices of equal length, old[i] a name of v1 that is
\* not in v2, new[i] a name of v2 that is not in v1 with the same digest,
\* and no name in more than one pair
C27_RenamedPairs ==
  (dlRet.m = "Renamed" /\ NonEmptyDigests)
    => RenamePairs(dlRet.ret[1], dlRet.ret[2])

\* one rename pair was returned where two names of v2 had the digest of
\* the removed name
C27_Witness ==
  /\ dlRet.m = "Renamed" /\ NonEmptyDigests
  /\ Len(dlRet.ret[1]) = 1
  /\ \E f \in DOMAIN v2 \ DOMAIN v1 :
       /\ f # dlRet.ret[2][1]
       /\ v2[f] = v1[dlRet.ret[1][1]]

\* ---------------------------------------------------------------------
\* WalkErr.Error
\* ---------------------------------------------------------------------

\* C28: Error() on every *WalkErr that Walk returns yields a string without
\* panicking, also when exactly one of WalkDirErr and JobFuncErr is nil
C28_ErrorNeverPanics ==
  errRet.m = "Error" => ~errRet.ret.panic

\* ---------------------------------------------------------------------
\* adding and draining on one goroutine
\* ---------------------------------------------------------------------

\* the one goroutine is inside its Add number numGos + 1, which has not
\* returned; pipe.in is open and no Job has been received
StuckInAdd ==
  /\ addCalls = numGos + 1
  /\ subPc = "send" /\ subJob.id = numGos + 1
  /\ ~inClosed /\ cpc = "range" /\ received = <<>>

\* every Job added was received and the range over Out() has ended
Completed == subPc = "closed" /\ cpc = "done" /\ Len(received) = addCalls

\* C29: with W workers and no cancellation, a single goroutine that makes
\* N Add calls, then Close, and only then drains Out() completes when
\* N <= W, and when N > W stays inside Add number W + 1 forever with all W
\* workers blocked in their send on pipe.out; with adding and draining on
\* two goroutines the run completes for every N
C29_SerialDeadlock ==
  /\ [](serial /\ addCalls > numGos => StuckInAdd)
  /\ (serial /\ addCalls > numGos) ~> (\A w \in Workers : wpc[w] = "send")
  /\ (serial /\ subPc = "send" /\ addCalls <= numGos) ~> (subPc = "idle")
  /\ (serial /\ subPc = "closed") ~> Completed
  /\ (~serial) ~> Completed

\* one goroutine, one worker more Add calls than workers: every worker is
\* at its send on pipe.out and the Add has not returned
C29_Witness ==
  /\ serial /\ StuckInAdd
  /\ \A w \in Workers : wpc[w] = "send"

\* one goroutine, as many Add calls as workers, more than one: completed
C29_WitnessCompleted ==
  serial /\ Completed /\ addCalls = numGos /\ numGos > 1

\* ---------------------------------------------------------------------
\* Walk: the entries added
\* ---------------------------------------------------------------------

\* the entries of t the default walkDirFunc lets through: regular files
FileEntries(t) == SelectSeq(t, LAMBDA e : DefaultWalkDirFunc(e) = "nil")

\* the Jobs in the pipe or out of it
JobsMade ==
  {wjob[w] : w \in DOMAIN wjob} \cup {received[i] : i \in DOMAIN received}
  \cup {subJob}

C30_WitnessAll ==
  /\ travPc = "closePipe" /\ walkDirErr = "nil"
  /\ addCalls = MaxJobs

\* ---------------------------------------------------------------------
\* a Job that carries an error when it is added
\* ---------------------------------------------------------------------

\* the copies of the Job id that the workers hold or that were sent on
\* pipe.out
CopiesOf(id) ==
  {wjob[w] : w \in {x \in DOMAIN wjob : wjob[x].id = id}}
  \cup {emitted[k] : k \in {x \in DOMAIN emitted : emitted[x].id = id}}
  \cup {received[k] : k \in {x \in DOMAIN received : received[x].id = id}}

\* C31: a Job that carries an error when a worker takes it from pipe.in
\* with the context not cancelled is sent on pipe.out exactly once, with
\* that error and without digests or file info, and its file is not opened
C31_PriorErrorPassesThrough ==
  \A id \in DOMAIN added :
    (added[id].err # "nil" /\ saw[id] = "clear") =>
      /\ id \notin opened
      /\ \A j \in CopiesOf(id) :
           j.err = added[id].err /\ j.sums = <<>> /\ j.info = "nil"
      /\ Occurrences(emitted, id) <= 1
      /\ (\A w \in DOMAIN wjob : wjob[w].id # id) =>
           Occurrences(emitted, id) = 1

\* a Job for a readable file was added with an error and received with it
C31_Witness ==
  \E k \in DOMAIN received :
    /\ received[k].path = "file.txt"
    /\ received[k].err = "prior"
    /\ added[received[k].id].err = "prior"
    /\ saw[received[k].id] = "clear"

\* ---------------------------------------------------------------------
\* the results and the worker count
\* ---------------------------------------------------------------------

\* what a result shows of a Job: path, digests, error
Result(j) == [path |-> j.path, sums |-> j.sums, err |-> j.err]

\* the Job number id as Add made it, digested by one sequential worker
SequentialDo(id) ==
  Do([id |-> id, path |-> added[id].path, algs |-> Algs, sums |-> <<>>,
      err |-> added[id].err, info |-> "nil"])

\* how often the result r is among the Jobs sent on pipe.out
TimesEmitted(r) == Cardinality({k \in DOMAIN emitted : Result(emitted[k]) = r})

\* how often one sequential worker produces r from the accepted Jobs
TimesSequential(r) ==
  Cardinality({id \in accepted : Result(SequentialDo(id)) = r})

\* C32: without cancellation, when the output is drained the multiset of
\* results (path, digests, error) sent on pipe.out is the multiset one
\* sequential worker produces from the accepted Jobs, for every worker
\* count and every interleaving; only the order may differ
C32_ResultsAsSequential ==
  (~ctxDone /\ cpc = "done") =>
    \A r \in {Result(emitted[k]) : k \in DOMAIN emitted}
             \cup {Result(SequentialDo(id)) : id \in accepted} :
      TimesEmitted(r) = TimesSequential(r)

\* two workers, both Jobs sent, the Job added second sent first
C32_Witness ==
  /\ ~ctxDone /\ cpc = "done"
  /\ numGos = 2 /\ Len(emitted) = 2
  /\ emitted[1].id = 2
  /\ emitted[1].path = "file.txt"

\* ---------------------------------------------------------------------
\* package delta: every name is classified once
\* ---------------------------------------------------------------------

\* the names in the slice s
NamesIn(s) == {s[i] : i \in DOMAIN s}

\* one of the orders a range over a map with the keys S can take
RECURSIVE AnOrder(_)
AnOrder(S) ==
  IF S = {} THEN <<>>
  ELSE LET x == CHOOSE y \in S : TRUE
       IN  <<x>> \o AnOrder(S \ {x})

\* the names each method of the Delta returns: Added, Removed, Renamed
\* (old), Renamed (new), Modified, Same
Classes ==
  LET digests == AnOrder(DOMAIN delta.allDigests)
      names == AnOrder(DOMAIN delta.allNames)
      renamed == Renamed(delta, digests)
  IN  <<NamesIn(Added(delta, digests)), NamesIn(Removed(delta, digests)),
        NamesIn(renamed[1]), NamesIn(renamed[2]),
        NamesIn(Modified(delta, names)), NamesIn(Same(delta, names))>>

\* the slice s holds the names of the class c, none of them twice, in
\* whatever order the map was ranged over
HoldsClass(s, c) == Len(s) = Cardinality(c) /\ NamesIn(s) = c

\* the slices the call made returned hold the names of their classes
CallReturnsClass(c) ==
  /\ dlRet.m = "Added" => HoldsClass(dlRet.ret, c[1])
  /\ dlRet.m = "Removed" => HoldsClass(dlRet.ret, c[2])
  /\ dlRet.m = "Renamed" =>
       HoldsClass(dlRet.ret[1], c[3]) /\ HoldsClass(dlRet.ret[2], c[4])
  /\ dlRet.m = "Modified" => HoldsClass(dlRet.ret, c[5])
  /\ dlRet.m = "Same" => HoldsClass(dlRet.ret, c[6])

\* C33: for two FileSets whose digests are all non-empty, every name of v1
\* and v2 is in exactly one of Added, Removed, Renamed (old), Renamed (new),
\* Modified and Same: the names only in v2 are Added or rename targets, the
\* names only in v1 Removed or rename sources, the names in both Modified
\* when their digests differ and Same when they are equal
C33_ClassifiedOnce ==
  (dlRet.m # "none" /\ NonEmptyDigests) =>
    LET c == Classes
    IN  /\ CallReturnsClass(c)
        /\ \A i, j \in DOMAIN c : i # j => c[i] \cap c[j] = {}
        /\ c[1] \cup c[4] = DOMAIN v2 \ DOMAIN v1
        /\ c[2] \cup c[3] = DOMAIN v1 \ DOMAIN v2
        /\ c[5] = {f \in DOMAIN v1 \cap DOMAIN v2 : v1[f] # v2[f]}
        /\ c[6] = {f \in DOMAIN v1 \cap DOMAIN v2 : v1[f] = v2[f]}

\* Added returned one of two new names with the digest of a removed name,
\* the other one is the rename target
C33_Witness ==
  /\ dlRet.m = "Added" /\ NonEmptyDigests
  /\ Len(dlRet.ret) = 1
  /\ \E f \in Classes[4] : v2[f] = v2[dlRet.ret[1]]

\* ---------------------------------------------------------------------
\* Job.Expected
\* ---------------------------------------------------------------------

\* C34: Expected returns the expected checksum: called on a Job made with
\* JobSum(s) it returns bytes equal to s, whether or not do has run
C34_ExpectedReturnsExpected ==
  aRet.m = "Expected" => BytesEqual(aRet.ret, aRet.job.valid)

====
